---- MODULE Spec2Model ----
(***************************************************************************)
(* A model of the tangram Python client's object model: the lazy object    *)
(* state (id / object / stored), the per-kind to_data / children codecs,   *)
(* Value.store with its batch submission to the Handle, and                *)
(* Directory.try_get.                                                      *)
(***************************************************************************)
EXTENDS Integers, Sequences, FiniteSets, TLC

\* ---------------------------------------------------------------- bounds

\* Object handles that construction calls may create.
MaxObjects == 3
\* Leaf blobs hold one of the byte strings 0..MaxBytes.
MaxBytes == 0
\* Length of the list passed to store(value).
MaxValueLen == 2
\* store() calls started in one behaviour.
MaxStoreCalls == 2
\* Tasks that may run store() concurrently on the event loop.
MaxTasks == 2

Handles == 1..MaxObjects
Tasks == 1..MaxTasks

\* ------------------------------------------------------- values and state

\* Python's None for an id, and for a body (state._object).
NoId == [tag |-> "none"]
NoBody == [kind |-> "none", scalar |-> 0, edges |-> <<>>]

VARIABLES
    created,   \* handles 1..created have been constructed
    origin,    \* origin[h]: "object" (with_object / new), "id" (with_id), "" (not yet)
    id,        \* State._id
    object,    \* State._object
    stored,    \* State._stored
    pc,        \* pc[t]: where task t's store() call is
    value,     \* value[t]: objects(resolved) of task t's call, while it is posting
    unstored,  \* unstored[t]: the call's reversed collection
    batch,     \* batch[t]: the objects the call handed to post_object_batch
    nhash,     \* nhash[t]: Handle.object_id calls made by the call
    npost,     \* npost[t]: Handle.post_object_batch calls made by the call
    accepted,  \* the {id, data} pairs of the batches the Handle accepted
    ncalls,    \* store() calls started so far
    last,      \* how the store() call that ended last ended
    fs,        \* the artifacts Directory.try_get walks, by node
    tg_pc,     \* where the try_get call is: "idle", "loop", "done"
    tg_args,   \* the call's arguments: the directory and the path
    components, \* try_get's components
    artifact,  \* try_get's artifact
    parents,   \* try_get's parents
    result,    \* what try_get returned or raised
    gr_raws,   \* the raw node specs at hand for Graph.new
    gr_count,  \* Graph.new calls made
    gr_args,   \* the node lists of the arguments of the last Graph.new
    gr_graph,  \* what the last Graph.new returned or raised
    gr_view,   \* what the last Graph.get returned or raised
    gr_entries, \* what entries() of that view returned
    ld_data,   \* the Handle's objects: the kind of the data held for each id
    ld_class,  \* the class of the id-only handle
    ld_id,     \* its State._id
    ld_object, \* its State._object: the kind of the cached body
    ld_result, \* what the last accessor call on it returned or raised
    cd_pc,     \* where the codec round trip is: "idle", "data", "back"
    cd_in,     \* the value given to to_data / to_data_string
    cd_data,   \* the data or the string it gave
    cd_out,    \* what from_data / from_data_string made of that
    rs_pc,     \* where the resolve call is: "idle", "single", "gather", "done"
    rs_value,  \* the value given to resolve
    rs_slots,  \* the sibling resolve calls, by position
    rs_order,  \* the positions in the order their awaitables completed
    rs_result, \* what resolve returned
    wk_tree,   \* the directories Directory.walk walks, by node
    wk_pc,     \* where the walk is: "idle", "walking", "done"
    wk_stack,  \* the generator frames of the walk, innermost last
    wk_out     \* the pairs yielded so far

storeVars == <<pc, value, unstored, batch, nhash, npost, accepted, ncalls, last>>
objVars == <<created, origin, id, object, stored>>
tgVars == <<fs, tg_pc, tg_args, components, artifact, parents, result>>
grVars == <<gr_raws, gr_count, gr_args, gr_graph, gr_view, gr_entries>>
ldVars == <<ld_data, ld_class, ld_id, ld_object, ld_result>>
cdVars == <<cd_pc, cd_in, cd_data, cd_out>>
rsVars == <<rs_pc, rs_value, rs_slots, rs_order, rs_result>>
wkVars == <<wk_tree, wk_pc, wk_stack, wk_out>>
vars == <<created, origin, id, object, stored, pc, value, unstored, batch, nhash, npost, accepted, ncalls, last,
          fs, tg_pc, tg_args, components, artifact, parents, result,
          gr_raws, gr_count, gr_args, gr_graph, gr_view, gr_entries,
          ld_data, ld_class, ld_id, ld_object, ld_result,
          cd_pc, cd_in, cd_data, cd_out,
          rs_pc, rs_value, rs_slots, rs_order, rs_result,
          wk_tree, wk_pc, wk_stack, wk_out>>

\* A reference held in a body: an in-memory handle (h > 0), or a handle that
\* from_data made with with_id (h = 0: id-only, stored).
ObjRef(h) == [h |-> h, id |-> NoId]
IdRef(i) == [h |-> 0, id |-> i]

\* The class of a handle is fixed by the constructor that made it: the kind
\* of the body given to with_object, or the prefix of the id given to with_id.
Prefix(kind) ==
    CASE kind = "blob" -> "blb"
      [] kind = "directory" -> "dir"
      [] kind = "file" -> "fil"
      [] kind = "symlink" -> "sym"
      [] OTHER -> "???"

Id_kind(i) ==
    CASE i.tag = "blb" -> "blob"
      [] i.tag = "dir" -> "directory"
      [] i.tag = "fil" -> "file"
      [] i.tag = "sym" -> "symlink"
      [] OTHER -> "invalid"

ClassOfHandle(ids, objs, h) ==
    IF objs[h] # NoBody THEN objs[h].kind ELSE Id_kind(ids[h])

ClassOf(ids, objs, r) ==
    IF r.h = 0 THEN Id_kind(r.id) ELSE ClassOfHandle(ids, objs, r.h)

\* Blob, Directory, File and Symlink are declared without a base class, so
\* no handle is an instance of Object_.
Object_Subclasses == {}

IsInstanceObject_(ids, objs, r) == ClassOf(ids, objs, r) \in Object_Subclasses

IsInstanceBlob(ids, objs, r) == ClassOf(ids, objs, r) = "blob"

RefStored(st, r) == IF r.h = 0 THEN TRUE ELSE st[r.h]

\* --------------------------------------------------------------- codecs

\* The Handle's object_id: a deterministic function of the data, whose
\* result starts with the kind's prefix.
Hash(data) == [tag |-> Prefix(data.kind), data |-> data]

RECURSIVE State_id(_, _, _)
RECURSIVE Object_to_data(_, _, _)

\* The id a reference's `.id` property returns.
RefIdInlined(ids, objs, r) ==
    IF r.h = 0 THEN r.id
    ELSE IF ids[r.h] # NoId THEN ids[r.h]
    ELSE [tag |-> "inline", data |-> Object_to_data(ids, objs, objs[r.h])]

RefId(ids, objs, r) ==
    IF r.h = 0 THEN r.id ELSE State_id(ids, objs, r.h)

\* base64 of a leaf blob's bytes; other scalars are copied.
ScalarData(kind, s) ==
    IF kind = "blob" THEN <<"base64", s>> ELSE <<"plain", s>>

ScalarFromData(kind, d) == d[2]

\* Blob / Directory / File / Symlink .Object.to_data: every embedded handle
\* is replaced by its id, the scalars are kept.
Object_to_data(ids, objs, body) ==
    [kind |-> body.kind,
     scalar |-> ScalarData(body.kind, body.scalar),
     edges |-> [i \in DOMAIN body.edges |->
                  [slot |-> body.edges[i].slot,
                   id |-> RefId(ids, objs, body.edges[i].ref)]]]

\* State.id (the property): the cached id, else the hash of the body's data.
State_id(ids, objs, h) ==
    IF ids[h] # NoId THEN ids[h]
    ELSE Hash(Object_to_data(ids, objs, objs[h]))

\* The handles whose _id the evaluation of h.id fills in.
RECURSIVE IdTouched(_, _, _)
IdTouched(ids, objs, h) ==
    IF ids[h] # NoId THEN {}
    ELSE {h} \cup UNION { IF objs[h].edges[i].ref.h = 0 THEN {}
                          ELSE IdTouched(ids, objs, objs[h].edges[i].ref.h)
                          : i \in DOMAIN objs[h].edges }

\* The handles whose _id to_data(body) fills in: the embedded ones.
DataTouched(ids, objs, body) ==
    UNION { IF body.edges[i].ref.h = 0 THEN {}
            ELSE IdTouched(ids, objs, body.edges[i].ref.h)
            : i \in DOMAIN body.edges }

CacheIds(ids, objs, hs) ==
    [x \in Handles |-> IF x \in hs THEN State_id(ids, objs, x) ELSE ids[x]]

\* Object_.Object_.from_data: ids become id-only handles.
Object_from_data(data) ==
    [kind |-> data.kind,
     scalar |-> ScalarFromData(data.kind, data.scalar),
     edges |-> [i \in DOMAIN data.edges |->
                  [slot |-> data.edges[i].slot, ref |-> IdRef(data.edges[i].id)]]]

\* The handles of a list of edges, in order.
Refs(edges) == [i \in DOMAIN edges |-> edges[i].ref]

Blob_children(ids, objs, body) == Refs(body.edges)

Directory_children(ids, objs, body) ==
    Refs(SelectSeq(body.edges, LAMBDA e : IsInstanceObject_(ids, objs, e.ref)))

File_children(ids, objs, body) ==
    Refs(SelectSeq(body.edges,
                   LAMBDA e : IF e.slot = "contents"
                              THEN IsInstanceBlob(ids, objs, e.ref)
                              ELSE IsInstanceObject_(ids, objs, e.ref)))

Symlink_children(ids, objs, body) ==
    Refs(SelectSeq(body.edges, LAMBDA e : IsInstanceObject_(ids, objs, e.ref)))

\* Object_.Object_.children: dispatch on the body's kind.
Object_children(ids, objs, body) ==
    CASE body.kind = "blob" -> Blob_children(ids, objs, body)
      [] body.kind = "directory" -> Directory_children(ids, objs, body)
      [] body.kind = "file" -> File_children(ids, objs, body)
      [] body.kind = "symlink" -> Symlink_children(ids, objs, body)
      [] OTHER -> <<>>

\* ---------------------------------------------------------- construction

Existing == 1..created

ExistingOfClass(kinds) ==
    { h \in Existing : ClassOfHandle(id, object, h) \in kinds }

ArtifactKinds == {"directory", "file", "symlink"}

Edge(slot, h) == [slot |-> slot, ref |-> ObjRef(h)]

\* The bodies a construction call can be given, over the handles that exist.
LeafBlobs == { [kind |-> "blob", scalar |-> b, edges |-> <<>>] : b \in 0..MaxBytes }

BranchBlobs ==
    { [kind |-> "blob", scalar |-> 0, edges |-> <<Edge("blob", c1), Edge("blob", c2)>>] :
        c1 \in ExistingOfClass({"blob"}), c2 \in ExistingOfClass({"blob"}) }

Files ==
    { [kind |-> "file", scalar |-> 0, edges |-> <<Edge("contents", c)>>] :
        c \in ExistingOfClass({"blob"}) }

Directories ==
    { [kind |-> "directory", scalar |-> 0, edges |-> <<>>] }
    \cup
    { [kind |-> "directory", scalar |-> 0, edges |-> <<Edge("a", a)>>] :
        a \in ExistingOfClass(ArtifactKinds) }

Bodies == LeafBlobs \cup BranchBlobs \cup Files \cup Directories

\* Blob / Directory / File / Symlink .with_object: a body, no id, stored = False.
WithObject(body) ==
    /\ UNCHANGED <<tgVars, grVars, ldVars, cdVars, rsVars, wkVars>>
    /\ created < MaxObjects
    /\ ncalls = 0
    /\ created' = created + 1
    /\ origin' = [origin EXCEPT ![created + 1] = "object"]
    /\ object' = [object EXCEPT ![created + 1] = body]
    /\ id' = [id EXCEPT ![created + 1] = NoId]
    /\ stored' = [stored EXCEPT ![created + 1] = FALSE]
    /\ UNCHANGED storeVars

\* with_id: an id, no body, stored = True.
WithId(i) ==
    /\ UNCHANGED <<tgVars, grVars, ldVars, cdVars, rsVars, wkVars>>
    /\ created < MaxObjects
    /\ ncalls = 0
    /\ created' = created + 1
    /\ origin' = [origin EXCEPT ![created + 1] = "id"]
    /\ object' = [object EXCEPT ![created + 1] = NoBody]
    /\ id' = [id EXCEPT ![created + 1] = i]
    /\ stored' = [stored EXCEPT ![created + 1] = TRUE]
    /\ UNCHANGED storeVars

\* ------------------------------------------------------------ the Handle

AcceptedIds == { e.id : e \in accepted }

\* get_object: the data the Handle holds for an id.
Handle_get_object(i) == (CHOOSE e \in accepted : e.id = i).data

\* ----------------------------------------------------------- Object_.State

\* The id property: returns the cached id or computes and caches it.
Id(h) ==
    /\ UNCHANGED <<tgVars, grVars, ldVars, cdVars, rsVars, wkVars>>
    /\ h \in Existing
    /\ ~(id[h] = NoId /\ object[h] = NoBody)
    /\ id' = CacheIds(id, object, IdTouched(id, object, h))
    /\ UNCHANGED <<created, origin, object, stored>>
    /\ UNCHANGED storeVars

\* State.load: fetches and decodes the body when it is absent.
State_load(h) ==
    IF object[h] # NoBody THEN object
    ELSE [object EXCEPT ![h] = Object_from_data(Handle_get_object(id[h]))]

LoadGuard(h) ==
    /\ h \in Existing
    /\ object[h] = NoBody => (id[h] # NoId /\ id[h] \in AcceptedIds)

Load(h) ==
    /\ UNCHANGED <<tgVars, grVars, ldVars, cdVars, rsVars, wkVars>>
    /\ LoadGuard(h)
    /\ object' = State_load(h)
    /\ UNCHANGED <<created, origin, id, stored>>
    /\ UNCHANGED storeVars

\* State.unload: drops the body if the object is stored.
Unload_objectAlways(h) == NoBody

Unload_object(h) == IF stored[h] THEN NoBody ELSE object[h]

Unload(h) ==
    /\ UNCHANGED <<tgVars, grVars, ldVars, cdVars, rsVars, wkVars>>
    /\ h \in Existing
    /\ object' = [object EXCEPT ![h] = Unload_object(h)]
    /\ UNCHANGED <<created, origin, id, stored>>
    /\ UNCHANGED storeVars

\* State.children: load, then the body's children (a pure read).
Children(h) ==
    /\ UNCHANGED <<tgVars, grVars, ldVars, cdVars, rsVars, wkVars>>
    /\ LoadGuard(h)
    /\ object' = State_load(h)
    /\ UNCHANGED <<created, origin, id, stored>>
    /\ UNCHANGED storeVars

\* ------------------------------------------------------------ Value.store

Reverse(s) == [i \in 1..Len(s) |-> s[Len(s) + 1 - i]]

\* The handles among refs whose stored flag is false.
UnstoredOf(st, refs) ==
    LET keep == SelectSeq(refs, LAMBDA r : ~RefStored(st, r))
    IN [i \in DOMAIN keep |-> keep[i].h]

\* stack = [obj for obj in objects(resolved) if not obj.state.stored]
StoreStackUnfiltered(st, v) == v

StoreStack(st, v) == SelectSeq(v, LAMBDA h : ~st[h])

\* The while loop of store: pop, append to unstored, push the unstored children.
RECURSIVE Collect(_, _, _, _, _)
Collect(ids, objs, st, stack, acc) ==
    IF stack = <<>> THEN acc
    ELSE LET obj == stack[Len(stack)]
             rest == SubSeq(stack, 1, Len(stack) - 1)
             ch == IF objs[obj] = NoBody THEN <<>>
                   ELSE UnstoredOf(st, Object_children(ids, objs, objs[obj]))
         IN Collect(ids, objs, st, rest \o ch, Append(acc, obj))

\* The collection as the store loop walks it: unstored.reverse().
StoreUnstored(ids, objs, st, v) ==
    Reverse(Collect(ids, objs, st, StoreStack(st, v), <<>>))

\* One round of the "store the objects" loop, for obj = list[i].
StoreOneNoAssign(acc, objs, obj) ==
    IF objs[obj] = NoBody THEN acc
    ELSE LET touched == DataTouched(acc.ids, objs, objs[obj])
             ids1 == CacheIds(acc.ids, objs, touched)
             data == Object_to_data(ids1, objs, objs[obj])
         IN [ids |-> ids1,
             batch |-> Append(acc.batch, [id |-> Hash(data), data |-> data]),
             hashes |-> acc.hashes + Cardinality(touched) + 1]

StoreOneHashBody(acc, objs, obj) ==
    IF objs[obj] = NoBody THEN acc
    ELSE LET touched == DataTouched(acc.ids, objs, objs[obj])
             ids1 == CacheIds(acc.ids, objs, touched)
             data == Object_to_data(ids1, objs, objs[obj])
             id_ == Hash([data EXCEPT !.scalar = <<"raw", objs[obj].scalar>>])
         IN [ids |-> [ids1 EXCEPT ![obj] = id_],
             batch |-> Append(acc.batch, [id |-> id_, data |-> data]),
             hashes |-> acc.hashes + Cardinality(touched) + 1]

StoreOne(acc, objs, obj) ==
    IF objs[obj] = NoBody THEN acc
    ELSE LET touched == DataTouched(acc.ids, objs, objs[obj])
             ids1 == CacheIds(acc.ids, objs, touched)
             data == Object_to_data(ids1, objs, objs[obj])
             id_ == Hash(data)
         IN [ids |-> [ids1 EXCEPT ![obj] = id_],
             batch |-> Append(acc.batch, [id |-> id_, data |-> data]),
             hashes |-> acc.hashes + Cardinality(touched) + 1]

\* The rounds for list[1..n].
RECURSIVE StoreLoop(_, _, _, _)
StoreLoop(ids, objs, list, n) ==
    IF n = 0 THEN [ids |-> ids, batch |-> <<>>, hashes |-> 0]
    ELSE StoreOne(StoreLoop(ids, objs, list, n - 1), objs, list[n])

\* post_object_batch is called once, with the whole batch, if it is not empty.
PostCallsPerObject(b) == Len(b)

PostCalls(b) == IF b # <<>> THEN 1 ELSE 0

\* "Mark all objects stored": after the await of post_object_batch.
MarkStoredOnFailure(st, list, ok) ==
    [h \in Handles |-> st[h] \/ (\E i \in DOMAIN list : list[i] = h)]

MarkStored(st, list, ok) ==
    [h \in Handles |-> st[h] \/ (ok /\ \E i \in DOMAIN list : list[i] = h)]

ValuesOver(S) == UNION { [1..n -> S] : n \in 1..MaxValueLen }

NoCall == <<>>

\* store(value) is called: the task awaits resolve(value).
StoreBegin(t) ==
    /\ UNCHANGED <<tgVars, grVars, ldVars, cdVars, rsVars, wkVars>>
    /\ pc[t] = "idle"
    /\ ncalls < MaxStoreCalls
    /\ ncalls' = ncalls + 1
    /\ pc' = [pc EXCEPT ![t] = "resolve"]
    /\ UNCHANGED <<value, unstored, batch, nhash, npost, accepted, last>>
    /\ UNCHANGED objVars

\* The call is over: its locals are gone.
EndCall(t, how) ==
    /\ pc' = [pc EXCEPT ![t] = "idle"]
    /\ last' = how
    /\ value' = [value EXCEPT ![t] = NoCall]
    /\ unstored' = [unstored EXCEPT ![t] = NoCall]
    /\ batch' = [batch EXCEPT ![t] = NoCall]
    /\ nhash' = [nhash EXCEPT ![t] = 0]
    /\ npost' = [npost EXCEPT ![t] = 0]

\* resolve(value) raises: store raises before it collected anything.
StoreResolveFail(t) ==
    /\ UNCHANGED <<tgVars, grVars, ldVars, cdVars, rsVars, wkVars>>
    /\ pc[t] = "resolve"
    /\ EndCall(t, "raised")
    /\ UNCHANGED <<accepted, ncalls>>
    /\ UNCHANGED objVars

\* resolve returned v: collect, return if there is nothing to store, else
\* compute the ids and call post_object_batch (the next await).
StoreRun(t, v) ==
    /\ UNCHANGED <<tgVars, grVars, ldVars, cdVars, rsVars, wkVars>>
    /\ pc[t] = "resolve"
    /\ LET list == StoreUnstored(id, object, stored, v)
           out == StoreLoop(id, object, list, Len(list))
       IN /\ id' = out.ids
          /\ IF list = <<>>
             THEN /\ EndCall(t, "noop")
                  /\ stored' = stored
             ELSE IF out.batch = <<>>
             THEN /\ EndCall(t, "returned")
                  /\ stored' = MarkStored(stored, list, TRUE)
             ELSE /\ pc' = [pc EXCEPT ![t] = "post"]
                  /\ nhash' = [nhash EXCEPT ![t] = out.hashes]
                  /\ npost' = [npost EXCEPT ![t] = PostCalls(out.batch)]
                  /\ value' = [value EXCEPT ![t] = v]
                  /\ unstored' = [unstored EXCEPT ![t] = list]
                  /\ batch' = [batch EXCEPT ![t] = out.batch]
                  /\ UNCHANGED <<stored, last>>
    /\ UNCHANGED <<created, origin, object, accepted, ncalls>>

\* object_id raises for the k-th collected object: the ids computed so far
\* stay cached, nothing is submitted.
StoreHashFail(t, v) ==
    /\ UNCHANGED <<tgVars, grVars, ldVars, cdVars, rsVars, wkVars>>
    /\ pc[t] = "resolve"
    /\ LET list == StoreUnstored(id, object, stored, v)
       IN \E k \in 1..Len(list) :
            LET out == StoreLoop(id, object, list, k - 1)
            IN /\ object[list[k]] # NoBody
               /\ id' = CacheIds(out.ids, object,
                                 DataTouched(out.ids, object, object[list[k]]))
    /\ EndCall(t, "raised")
    /\ UNCHANGED <<created, origin, object, stored, accepted, ncalls>>

\* post_object_batch returned: every collected object is marked stored.
StorePostOk(t) ==
    /\ UNCHANGED <<tgVars, grVars, ldVars, cdVars, rsVars, wkVars>>
    /\ pc[t] = "post"
    /\ accepted' = accepted \cup { batch[t][i] : i \in DOMAIN batch[t] }
    /\ stored' = MarkStored(stored, unstored[t], TRUE)
    /\ EndCall(t, "returned")
    /\ UNCHANGED <<created, origin, id, object, ncalls>>

\* post_object_batch raised: store raises, nothing is marked.
StorePostFail(t) ==
    /\ UNCHANGED <<tgVars, grVars, ldVars, cdVars, rsVars, wkVars>>
    /\ pc[t] = "post"
    /\ stored' = MarkStored(stored, unstored[t], FALSE)
    /\ EndCall(t, "raised")
    /\ UNCHANGED <<created, origin, id, object, accepted, ncalls>>

\* The task is cancelled at one of store's two awaits.
StoreCancel(t) ==
    /\ UNCHANGED <<tgVars, grVars, ldVars, cdVars, rsVars, wkVars>>
    /\ pc[t] \in {"resolve", "post"}
    /\ EndCall(t, "cancelled")
    /\ UNCHANGED <<accepted, ncalls>>
    /\ UNCHANGED objVars

\* ------------------------------------------------------ Directory.try_get

\* Parts of the path given to try_get, and of a symlink's path.
MaxPathLen == 2
MaxLinkLen == 2
\* try_get's component list is followed up to this length.
MaxComponents == 4

\* A path string is modelled by its parts between "/" (str.split("/")):
\* "" is <<"">>, "a/b" is <<"a", "b">>, "/a" is <<"", "a">>.
NoPath == [present |-> FALSE, parts |-> <<>>]
StrPath(parts) == [present |-> TRUE, parts |-> parts]

\* A reference to an artifact handle: the node it stands for, and whether the
\* handle was made by with_id (its body is then what from_data decodes).
NoArtifact == [node |-> 0, viaId |-> FALSE]
Handle(n) == [node |-> n, viaId |-> FALSE]

Names == {"a", "b", "s", "t"}
NoEntries == [n \in Names |-> 0]

FileNode == [kind |-> "file", entries |-> NoEntries, artifact |-> 0, form |-> "none", path |-> NoPath]

DirectoryNode(entries) ==
    [kind |-> "directory", entries |-> entries, artifact |-> 0, form |-> "none", path |-> NoPath]

\* form: how the symlink's body holds its artifact: "none", "object" (a
\* Directory / File / Symlink handle) or "id" (an id string).
SymlinkNode(a, form, path) ==
    [kind |-> "symlink", entries |-> NoEntries, artifact |-> a, form |-> form, path |-> path]

ArgParts == {"a", "b", "s", "t", "..", ""}
LinkParts == {"a", "b", "s", "t", ".."}

PathsOver(parts, n) == UNION { [1..k -> parts] : k \in 1..n }

LinkPaths == {NoPath} \cup { StrPath(q) : q \in PathsOver(LinkParts, MaxLinkLen) }

\* The structures walked: node 5 is the root {a: 3, s: 4}, node 3 the
\* directory {b: 1, t: 2}, node 1 a file, nodes 2 and 4 symlinks.
Structures ==
    { << FileNode,
         SymlinkNode(0, "none", tpath),
         DirectoryNode([NoEntries EXCEPT !["b"] = 1, !["t"] = 2]),
         SymlinkNode(starget[1], starget[2], spath),
         DirectoryNode([NoEntries EXCEPT !["a"] = 3, !["s"] = 4]) >> :
        tpath \in {StrPath(<<"b">>), StrPath(<<"..", "s">>)},
        starget \in {<<0, "none">>, <<3, "object">>, <<3, "id">>, <<1, "object">>, <<1, "id">>},
        spath \in LinkPaths }

\* _path_components
_path_components(path) ==
    IF path = <<"">> THEN <<>>
    ELSE LET abs == path[1] = "" /\ Len(path) > 1
             rest == IF path[1] = "" THEN Tail(path) ELSE path
         IN (IF path[1] = "" THEN <<"/">> ELSE <<>>)
            \o SelectSeq(rest, LAMBDA part : part # "" /\ part # ".")

IsDirectory(a) == a.node # 0 /\ fs[a.node].kind = "directory"
IsSymlink(a) == a.node # 0 /\ fs[a.node].kind = "symlink"

\* (await artifact.entries()).get(component): the entries of a body are
\* handles; those of a body decoded by from_data are with_id handles.
Directory_entry(a, component) ==
    IF component \in Names /\ fs[a.node].entries[component] # 0
    THEN [node |-> fs[a.node].entries[component], viaId |-> a.viaId]
    ELSE NoArtifact

\* Symlink.artifact: a handle held in the body is returned if it is an
\* instance of Object_, an id string is turned into a handle, anything else
\* gives None.
Symlink_artifact(a) ==
    LET n == fs[a.node]
    IN IF n.form = "none" THEN NoArtifact
       ELSE IF n.form = "object" \/ a.viaId
       THEN IF fs[n.artifact].kind \in Object_Subclasses
            THEN [node |-> n.artifact, viaId |-> a.viaId]
            ELSE NoArtifact
       ELSE [node |-> n.artifact, viaId |-> TRUE]

\* Symlink.path
Symlink_path(a) == fs[a.node].path

Returned(a) == [status |-> IF a = NoArtifact THEN "None" ELSE "artifact", artifact |-> a]
Raised(msg) == [status |-> msg, artifact |-> NoArtifact]
NoResult == [status |-> "", artifact |-> NoArtifact]

\* try_get returns or raises r. Under Directory.get a returned value goes
\* to get's assert_, an exception goes through get to the caller.
TgDone(r) ==
    /\ tg_pc' = IF tg_args'.op = "get" /\ r.status \in {"artifact", "None"}
                THEN "assert" ELSE "done"
    /\ result' = r
    /\ UNCHANGED <<components, artifact, parents>>

TgLoop(cs, a, ps) ==
    IF Len(cs) > MaxComponents
    THEN TgDone(Raised("components above MaxComponents"))
    ELSE /\ tg_pc' = "loop"
         /\ components' = cs
         /\ artifact' = a
         /\ parents' = ps
         /\ result' = result

\* directory.try_get(path) is called.
TryGetCall(dir, path) ==
    /\ tg_pc = "idle"
    /\ fs[dir].kind = "directory"
    /\ tg_args' = [op |-> "try_get", dir |-> dir, path |-> path]
    /\ TgLoop(_path_components(path), Handle(dir), <<>>)
    /\ UNCHANGED fs
    /\ UNCHANGED objVars
    /\ UNCHANGED storeVars
    /\ UNCHANGED <<grVars, ldVars, cdVars, rsVars, wkVars>>

\* directory.get(path) is called: it awaits try_get(path).
GetCall(dir, path) ==
    /\ tg_pc = "idle"
    /\ fs[dir].kind = "directory"
    /\ tg_args' = [op |-> "get", dir |-> dir, path |-> path]
    /\ TgLoop(_path_components(path), Handle(dir), <<>>)
    /\ UNCHANGED fs
    /\ UNCHANGED objVars
    /\ UNCHANGED storeVars
    /\ UNCHANGED <<grVars, ldVars, cdVars, rsVars, wkVars>>

\* get's assert_(artifact is not None, ...), then return artifact.
Directory_getNoAssert(r) == r

Directory_get(r) ==
    IF r.status = "None" THEN Raised("Failed to get the directory entry") ELSE r

GetAssert ==
    /\ tg_pc = "assert"
    /\ tg_pc' = "done"
    /\ result' = Directory_get(result)
    /\ UNCHANGED <<fs, tg_args, components, artifact, parents>>
    /\ UNCHANGED objVars
    /\ UNCHANGED storeVars
    /\ UNCHANGED <<grVars, ldVars, cdVars, rsVars, wkVars>>

\* parents.pop(): the value popped, and the list left.
Top(ps) == ps[Len(ps)]

PopNothing(ps) == ps

Pop(ps) == SubSeq(ps, 1, Len(ps) - 1)

\* components = _path_components(path_) + components
SpliceDropRest(path_, cs) == _path_components(path_)

Splice(path_, cs) == _path_components(path_) \o cs

\* The symlink branch of the loop, for the entry just looked up.
TgSymlink(entry, cs, ps) ==
    LET artifact_ == Symlink_artifact(entry)
        path_ == Symlink_path(entry)
    IN IF artifact_ = NoArtifact /\ path_.present
       THEN IF ps = <<>>
            THEN TgDone(Raised("path is external"))
            ELSE TgLoop(Splice(path_.parts, cs), Top(ps), Pop(ps))
       ELSE IF artifact_ # NoArtifact /\ ~path_.present
       THEN TgDone(Returned(artifact_))
       ELSE IF IsDirectory(artifact_) /\ path_.present
       THEN \* return await artifact_.try_get(path_)
            TgLoop(_path_components(path_.parts), artifact_, <<>>)
       ELSE TgDone(Raised("invalid symlink"))

\* One round of try_get's while loop.
TryGetStep ==
    /\ tg_pc = "loop"
    /\ UNCHANGED <<fs, tg_args>>
    /\ IF components = <<>>
       THEN TgDone(Returned(artifact))
       ELSE LET component == Head(components)
                cs == Tail(components)
            IN IF component = "/"
               THEN TgDone(Raised("invalid path"))
               ELSE IF component = "."
               THEN TgLoop(cs, artifact, parents)
               ELSE IF component = ".."
               THEN IF parents = <<>>
                    THEN TgDone(Raised("path is external"))
                    ELSE TgLoop(cs, Top(parents), Pop(parents))
               ELSE IF ~IsDirectory(artifact)
               THEN TgDone(Returned(NoArtifact))
               ELSE LET entry == Directory_entry(artifact, component)
                    IN IF entry = NoArtifact
                       THEN TgDone(Returned(NoArtifact))
                       ELSE IF IsSymlink(entry)
                       THEN TgSymlink(entry, cs, Append(parents, artifact))
                       ELSE TgLoop(cs, entry, Append(parents, artifact))
    /\ UNCHANGED objVars
    /\ UNCHANGED storeVars
    /\ UNCHANGED <<grVars, ldVars, cdVars, rsVars, wkVars>>

NoArgs == [op |-> "", dir |-> 0, path |-> <<>>]

\* The caller has the result: the call's frame is gone.
TryGetEnd ==
    /\ tg_pc = "done"
    /\ tg_pc' = "idle"
    /\ tg_args' = NoArgs
    /\ components' = <<>>
    /\ artifact' = NoArtifact
    /\ parents' = <<>>
    /\ result' = NoResult
    /\ UNCHANGED fs
    /\ UNCHANGED objVars
    /\ UNCHANGED storeVars
    /\ UNCHANGED <<grVars, ldVars, cdVars, rsVars, wkVars>>

\* ------------------------------------------------------------------ Graph

\* Indices written in raw node specs: -1 .. MaxIndex.
MaxIndex == 1
\* Graph.new calls in one behaviour.
MaxNews == 2

Indices == -1..MaxIndex

\* What stands where an edge can stand: None, an int, a pointer
\* {graph, index, kind} (graph 0: no graph, kind "": no kind), or an object.
NoEdge == [t |-> "none", graph |-> 0, index |-> 0, kind |-> ""]
IntEdge(i) == [t |-> "int", graph |-> 0, index |-> i, kind |-> ""]
Pointer(g, i, k) == [t |-> "pointer", graph |-> g, index |-> i, kind |-> k]
ObjectEdge == [t |-> "object", graph |-> 0, index |-> 0, kind |-> ""]

\* A node holds one edge: a directory's entry "x", a file's dependency "r"
\* (wrapped: written as {item, options}), a symlink's artifact.
GraphNode(kind, wrapped, edge) == [kind |-> kind, wrapped |-> wrapped, edge |-> edge]

RawEdges ==
    {NoEdge, ObjectEdge}
    \cup { IntEdge(i) : i \in Indices }
    \cup { Pointer(0, i, k) : i \in Indices, k \in {"", "file"} }
    \cup { Pointer(2, i, k) : i \in Indices, k \in {"", "file"} }

RawNodes ==
    { GraphNode(k, FALSE, e) : k \in {"directory", "file", "symlink"}, e \in RawEdges }
    \cup { GraphNode("file", TRUE, e) : e \in RawEdges }

\* The raw specs {"nodes": [node]}.
RawSpecs == { <<n>> : n \in RawNodes }

\* Graph.arg, for one node of an argument whose nodes start at offset.
Rebase(e, offset) == [e EXCEPT !.index = @ + offset]

Graph_arg_directory(e, offset) ==
    IF e.t = "int" THEN Rebase(e, offset)
    ELSE IF e.t = "pointer" /\ e.graph = 0 THEN Rebase(e, offset)
    ELSE e

Graph_arg_file(wrapped, e, offset) ==
    IF ~wrapped THEN e
    ELSE IF e.t \in {"int", "pointer"} THEN Rebase(e, offset)
    ELSE e

Graph_arg_symlink(e, offset) ==
    IF e.t \in {"int", "pointer"} THEN Rebase(e, offset) ELSE e

Graph_arg_node(n, offset) ==
    CASE n.kind = "directory" ->
            GraphNode("directory", FALSE, Graph_arg_directory(n.edge, offset))
      [] n.kind = "file" ->
            GraphNode("file", n.wrapped \/ n.edge.t # "none",
                      Graph_arg_file(n.wrapped, n.edge, offset))
      [] n.kind = "symlink" ->
            GraphNode("symlink", FALSE, Graph_arg_symlink(n.edge, offset))

\* Graph.arg: the nodes of the arguments, one after the other.
RECURSIVE Graph_arg(_, _)
Graph_arg(args, offset) ==
    IF args = <<>> THEN <<>>
    ELSE [i \in DOMAIN Head(args) |-> Graph_arg_node(Head(args)[i], offset)]
         \o Graph_arg(Tail(args), offset + Len(Head(args)))

\* nodes[i] of a Python list: a negative i counts from the end.
InList(nodes, i) == -Len(nodes) <= i /\ i < Len(nodes)
At(nodes, i) == IF i >= 0 THEN nodes[i + 1] ELSE nodes[Len(nodes) + i + 1]

\* Edge.from_arg: [raises, edge].
Done(e) == [raises |-> "", edge |-> e]

InferKind(e, nodes) ==
    IF e.index >= Len(nodes)
    THEN [raises |-> "invalid node index", edge |-> NoEdge]
    ELSE IF ~InList(nodes, e.index)
    THEN [raises |-> "IndexError", edge |-> NoEdge]
    ELSE Done(Pointer(e.graph, e.index, At(nodes, e.index).kind))

Edge_from_arg(e, nodes) ==
    IF e.t = "int" THEN InferKind(e, nodes)
    ELSE IF e.t = "pointer" /\ e.kind = "" THEN InferKind(e, nodes)
    ELSE Done(e)

\* Graph.new, for one node of Graph.arg's result.
Graph_new_node(n, nodes) ==
    IF n.edge.t = "none" THEN Done(n.edge) ELSE Edge_from_arg(n.edge, nodes)

\* Graph.new: the graph, or the first exception of the loop over the nodes.
RECURSIVE FirstRaise(_, _, _)
FirstRaise(nodes, all, i) ==
    IF i > Len(nodes) THEN ""
    ELSE IF Graph_new_node(nodes[i], all).raises # ""
    THEN Graph_new_node(nodes[i], all).raises
    ELSE FirstRaise(nodes, all, i + 1)

NoGraph == [status |-> "none", nodes |-> <<>>]

Graph_new(args) ==
    LET nodes == Graph_arg(args, 0)
        raises == FirstRaise(nodes, nodes, 1)
    IN IF raises # "" THEN [status |-> raises, nodes |-> <<>>]
       ELSE [status |-> "graph",
             nodes |-> [i \in DOMAIN nodes |->
                          [nodes[i] EXCEPT !.edge = Graph_new_node(nodes[i], nodes).edge]]]

\* The arguments at hand: the raw specs and the graph made last.
Available ==
    { gr_raws[i] : i \in DOMAIN gr_raws }
    \cup (IF gr_graph.status = "graph" THEN {gr_graph.nodes} ELSE {})

GraphNew(args) ==
    /\ gr_count < MaxNews
    /\ gr_count' = gr_count + 1
    /\ gr_args' = args
    /\ gr_graph' = Graph_new(args)
    /\ gr_view' = gr_view
    /\ gr_entries' = gr_entries
    /\ UNCHANGED gr_raws
    /\ UNCHANGED <<objVars, storeVars, tgVars, ldVars, cdVars, rsVars, wkVars>>

\* A view: the body Graph.get gives to with_object.
NoView == [status |-> "none", graph |-> 0, index |-> 0, kind |-> ""]
View(i, kind) == [status |-> "view", graph |-> 1, index |-> i, kind |-> kind]

\* Graph.get(index)
Graph_get(nodes, index) ==
    IF index >= Len(nodes)
    THEN [NoView EXCEPT !.status = "invalid graph index"]
    ELSE IF ~InList(nodes, index)
    THEN [NoView EXCEPT !.status = "IndexError"]
    ELSE View(index, At(nodes, index).kind)

NoEntriesResult == [status |-> "none", entries |-> {}]

GraphGet(index) ==
    /\ gr_graph.status = "graph"
    /\ gr_view' = Graph_get(gr_graph.nodes, index)
    /\ gr_entries' = NoEntriesResult
    /\ UNCHANGED <<gr_raws, gr_count, gr_args, gr_graph>>
    /\ UNCHANGED <<objVars, storeVars, tgVars, ldVars, cdVars, rsVars, wkVars>>

\* The body of a view as Directory.object() returns it: the dict
\* {"graph", "index", "kind"}.
View_object(v) == [graph |-> v.graph, index |-> v.index, kind |-> v.kind]

\* obj.get("entries", {}) and the loop of Directory.__aiter__ over it: the
\* (name, artifact) pairs of the body's entries.
\* One entry of the loop: an object is yielded as it is, a pointer is
\* resolved by its graph's get, which a pointer without a graph fails.
Aiter_artifact(edge) ==
    IF edge.t = "pointer"
    THEN IF edge.graph = 0
         THEN [NoView EXCEPT !.status = "missing graph"]
         ELSE [status |-> "view", graph |-> edge.graph, index |-> edge.index,
               kind |-> edge.kind]
    ELSE [NoView EXCEPT !.status = "object"]

Directory_aiter(obj) ==
    IF "entries" \in DOMAIN obj
    THEN { [name |-> e.name, artifact |-> Aiter_artifact(e.edge)] : e \in obj.entries }
    ELSE {}

\* view.entries(), for a directory view.
ViewEntries ==
    /\ gr_view.status = "view"
    /\ gr_view.kind = "directory"
    /\ gr_entries.status = "none"
    /\ gr_entries' = [status |-> "returned",
                      entries |-> Directory_aiter(View_object(gr_view))]
    /\ UNCHANGED <<gr_raws, gr_count, gr_args, gr_graph, gr_view>>
    /\ UNCHANGED <<objVars, storeVars, tgVars, ldVars, cdVars, rsVars, wkVars>>

\* ------------------------------------------------- load through a handle

\* The ids given to with_id, and the classes whose with_id is called.
LdIds == { [tag |-> "dir", n |-> 1], [tag |-> "fil", n |-> 1] }
LdClasses == {"directory", "file", "symlink"}
\* The kind of the data the Handle holds for an id; "": it holds none.
LdDataKinds == {"", "directory", "file"}

\* A body is told by its kind tag; "": State._object is None.
NoLdResult == [op |-> "", status |-> "none", kind |-> ""]
LdReturned(op, kind) == [op |-> op, status |-> "returned", kind |-> kind]
LdRaised(op, what) == [op |-> op, status |-> what, kind |-> ""]

LoadIdle ==
    /\ ld_class = ""
    /\ ld_id = NoId
    /\ ld_object = ""
    /\ ld_result = NoLdResult

\* Class.with_id(id): cls(id=id, stored=True).
LdWithId(class, i) ==
    /\ ld_class' = class
    /\ ld_id' = i
    /\ ld_object' = ""
    /\ ld_result' = NoLdResult
    /\ UNCHANGED ld_data
    /\ UNCHANGED <<objVars, storeVars, tgVars, grVars, cdVars, rsVars, wkVars>>

\* Handle.get_object(id): the data, or the Handle's report that it has none.
get_object(i) ==
    IF ld_data[i] = "" THEN [raises |-> "not found", kind |-> ""]
    ELSE [raises |-> "", kind |-> ld_data[i]]

\* Object_.Object_.from_data keeps the kind of the data.
from_data_kind(data) == data.kind

\* State.load: [raises, object], object being State._object afterwards.
Ld_State_load ==
    IF ld_object # "" THEN [raises |-> "", object |-> ld_object]
    ELSE IF get_object(ld_id).raises # ""
    THEN [raises |-> get_object(ld_id).raises, object |-> ""]
    ELSE [raises |-> "", object |-> from_data_kind(get_object(ld_id))]

\* The assert_ of Class.object() and Class.load() on the loaded body.
KindAssertNone(op, class, obj) == LdReturned(op, obj)

KindAssert(op, class, obj) ==
    IF obj = class THEN LdReturned(op, obj) ELSE LdRaised(op, "AssertionError")

\* Class.object() and Class.load(): State.load, then the assertion.
LdAccessor(op) ==
    /\ ld_class # ""
    /\ ld_object' = Ld_State_load.object
    /\ ld_result' = IF Ld_State_load.raises # ""
                    THEN LdRaised(op, Ld_State_load.raises)
                    ELSE KindAssert(op, ld_class, Ld_State_load.object)
    /\ UNCHANGED <<ld_data, ld_class, ld_id>>
    /\ UNCHANGED <<objVars, storeVars, tgVars, grVars, cdVars, rsVars, wkVars>>

\* handle.state.load(), without the class's accessor.
LdStateLoad ==
    /\ ld_class # ""
    /\ ld_object' = Ld_State_load.object
    /\ ld_result' = IF Ld_State_load.raises # ""
                    THEN LdRaised("state.load", Ld_State_load.raises)
                    ELSE LdReturned("state.load", Ld_State_load.object)
    /\ UNCHANGED <<ld_data, ld_class, ld_id>>
    /\ UNCHANGED <<objVars, storeVars, tgVars, grVars, cdVars, rsVars, wkVars>>

\* Class.unload(): a with_id handle is stored, so its body is dropped.
LdUnload ==
    /\ ld_class # ""
    /\ ld_object # ""
    /\ ld_object' = ""
    /\ UNCHANGED <<ld_data, ld_class, ld_id, ld_result>>
    /\ UNCHANGED <<objVars, storeVars, tgVars, grVars, cdVars, rsVars, wkVars>>

\* --------------------------------------------------------- Directory.walk

\* Nodes of a walked tree; node 1 is the directory walk is called on.
MaxWalkNodes == 4
\* Entries of one directory.
MaxWalkEntries == 2

WalkNames == {"a", "b"}

\* How an entry holds its artifact: as an object (a handle, or an id that
\* _artifact_with_id makes a handle of), or as a pointer into a graph.
WalkHeld == {"object", "pointer"}

\* A directory body's entries are a dict: (name, artifact) in insertion order.
WalkEntriesOver(children) ==
    { es \in UNION { [1..n -> [name : WalkNames, node : children]] : n \in 0..MaxWalkEntries } :
        \A i \in DOMAIN es : \A k \in DOMAIN es : es[i].name = es[k].name => i = k }

WalkFile == [kind |-> "file", held |-> "object", entries |-> <<>>]

WalkNodesAt(i) ==
    { [kind |-> "directory", held |-> h, entries |-> es] :
        h \in WalkHeld, es \in WalkEntriesOver((i + 1)..MaxWalkNodes) }
    \cup (IF i = 1 THEN {} ELSE {WalkFile})

\* The trees: an entry of node i refers to a node after i.
RECURSIVE WalkTreesFrom(_)
WalkTreesFrom(i) ==
    IF i > MaxWalkNodes THEN {<<>>}
    ELSE { <<n>> \o t : n \in WalkNodesAt(i), t \in WalkTreesFrom(i + 1) }

WalkTrees == WalkTreesFrom(1)

\* Directory.__aiter__: the (name, artifact) pairs of self.object(). What
\* Graph.get returns for a pointer is a view, whose body has no entries.
Walk_aiter(node) ==
    IF wk_tree[node].held = "pointer" THEN <<>> ELSE wk_tree[node].entries

\* A frame of the generator: the directory it iterates and the position of
\* the entry it yields next.
Frame(node, next) == [node |-> node, next |-> next]

\* f"{name}/{subpath}", level by level: the names of the entries the frames
\* are at, outermost first. A path is modelled by its parts between "/".
WalkPath(stack) ==
    [i \in 1..Len(stack) |-> Walk_aiter(stack[i].node)[stack[i].next - 1].name]

\* if isinstance(artifact, Directory): async for ... in artifact.walk()
Descend(stack, node) ==
    IF wk_tree[node].kind = "directory" THEN Append(stack, Frame(node, 1)) ELSE stack

\* The walk is resumed: the frames run until one yields, or all have ended.
RECURSIVE WalkResume(_)
WalkResume(stack) ==
    IF stack = <<>> THEN [stack |-> <<>>, yields |-> <<>>]
    ELSE LET top == stack[Len(stack)]
             es == Walk_aiter(top.node)
         IN IF top.next > Len(es)
            THEN WalkResume(SubSeq(stack, 1, Len(stack) - 1))
            ELSE LET at == [stack EXCEPT ![Len(stack)].next = top.next + 1]
                 IN [stack |-> Descend(at, es[top.next].node),
                     yields |-> <<[path |-> WalkPath(at), artifact |-> es[top.next].node]>>]

\* directory.walk() is called: nothing runs until the first pair is asked for.
WalkCall ==
    /\ wk_pc = "idle"
    /\ wk_pc' = "walking"
    /\ wk_stack' = <<Frame(1, 1)>>
    /\ wk_out' = <<>>
    /\ UNCHANGED wk_tree
    /\ UNCHANGED <<objVars, storeVars, tgVars, grVars, ldVars, cdVars, rsVars>>

\* The consumer asks for the next pair: one pair is yielded, or the walk ends.
WalkNext ==
    /\ wk_pc = "walking"
    /\ wk_stack' = WalkResume(wk_stack).stack
    /\ wk_out' = wk_out \o WalkResume(wk_stack).yields
    /\ wk_pc' = IF WalkResume(wk_stack).yields = <<>> THEN "done" ELSE "walking"
    /\ UNCHANGED wk_tree
    /\ UNCHANGED <<objVars, storeVars, tgVars, grVars, ldVars, cdVars, rsVars>>

\* The consumer drops the generator; walk can be called again.
WalkEnd ==
    /\ wk_pc \in {"walking", "done"}
    /\ wk_pc' = "idle"
    /\ wk_stack' = <<>>
    /\ wk_out' = <<>>
    /\ UNCHANGED wk_tree
    /\ UNCHANGED <<objVars, storeVars, tgVars, grVars, ldVars, cdVars, rsVars>>

\* ---------------------------------------------------------------- resolve

\* Elements of a container.
MaxResolveLen == 3
\* Coroutines that return coroutines.
MaxAwaits == 2

\* Python values: strings, coroutines (what awaiting them gives after so
\* many awaits), lists, tuples and dicts (keys in insertion order).
Str(v) == [t |-> "str", v |-> v]

Coroutine(n, r) == [t |-> "coro", awaits |-> n, result |-> r]

Container(type, keys, items) == [t |-> type, keys |-> keys, items |-> items]

NoValue == [t |-> "none"]

ContainerTypes == {"list", "dict", "tuple"}

ResolveKeys == {"k", "l", "m"}

Terminals == { Str("x"), Str("y") }

\* A list with nothing pending in it.
TermList == Container("list", <<>>, <<Str("x"), Str("y")>>)

Elements ==
    Terminals \cup {TermList}
    \cup { Coroutine(n, r) : n \in 1..MaxAwaits, r \in Terminals \cup {TermList} }

KeysOf(type, n) ==
    IF type = "dict"
    THEN { ks \in [1..n -> ResolveKeys] : \A i \in 1..n : \A k \in 1..n : ks[i] = ks[k] => i = k }
    ELSE {<<>>}

\* What resolve is called with.
ResolveValues ==
    Elements
    \cup UNION { { Container(type, ks, items) : ks \in KeysOf(type, n), items \in [1..n -> Elements] }
                 : type \in ContainerTypes, n \in 0..MaxResolveLen }

\* asyncio.iscoroutine(value)
IsCoroutine(val) == val.t = "coro"

\* value = await valueue
Await(val) ==
    IF val.awaits > 1 THEN Coroutine(val.awaits - 1, val.result) ELSE val.result

\* A sibling resolve(v): the value it is at, and whether it has returned.
Slot(cur) == [cur |-> cur, done |-> FALSE]

\* asyncio.gather's result: the values of the awaitables in the order they
\* were passed.
GatherCompletionOrder(slots, order) == [i \in DOMAIN slots |-> slots[order[i]].cur]

GatherResults(slots, order) == [i \in DOMAIN slots |-> slots[i].cur]

\* list(resolved), dict(zip(keys, values)), tuple(resolved)
Zip(keys, values) ==
    IF Len(keys) <= Len(values) THEN [i \in DOMAIN keys |-> values[i]] ELSE values

Rebuild(val, resolved) ==
    IF val.t = "dict"
    THEN Container("dict", SubSeq(val.keys, 1, Len(Zip(val.keys, resolved))),
                   Zip(val.keys, resolved))
    ELSE Container(val.t, <<>>, resolved)

\* resolve(value) is called: a container starts one resolve per element.
ResolveCall ==
    /\ rs_pc = "idle"
    /\ rs_pc' = IF rs_value.t \in ContainerTypes THEN "gather" ELSE "single"
    /\ rs_slots' = IF rs_value.t \in ContainerTypes
                   THEN [i \in DOMAIN rs_value.items |-> Slot(rs_value.items[i])]
                   ELSE <<Slot(rs_value)>>
    /\ rs_order' = <<>>
    /\ UNCHANGED <<rs_value, rs_result>>
    /\ UNCHANGED <<objVars, storeVars, tgVars, grVars, ldVars, cdVars, wkVars>>

\* One of the pending resolve calls runs: the coroutine it awaits finishes,
\* or it returns (a container with nothing pending is rebuilt).
ResolveStep(i) ==
    /\ rs_pc \in {"single", "gather"}
    /\ i \in DOMAIN rs_slots
    /\ ~rs_slots[i].done
    /\ LET cur == rs_slots[i].cur
       IN IF IsCoroutine(cur)
          THEN /\ rs_slots' = [rs_slots EXCEPT ![i].cur = Await(cur)]
               /\ UNCHANGED rs_order
          ELSE /\ rs_slots' = [rs_slots EXCEPT
                                  ![i] = [cur |-> IF cur.t \in ContainerTypes
                                                  THEN Rebuild(cur, cur.items)
                                                  ELSE cur,
                                          done |-> TRUE]]
               /\ rs_order' = Append(rs_order, i)
    /\ UNCHANGED <<rs_pc, rs_value, rs_result>>
    /\ UNCHANGED <<objVars, storeVars, tgVars, grVars, ldVars, cdVars, wkVars>>

\* Every sibling has returned: resolve returns.
ResolveReturn ==
    /\ rs_pc \in {"single", "gather"}
    /\ \A i \in DOMAIN rs_slots : rs_slots[i].done
    /\ rs_result' = IF rs_pc = "gather"
                    THEN Rebuild(rs_value, GatherResults(rs_slots, rs_order))
                    ELSE rs_slots[1].cur
    /\ rs_pc' = "done"
    /\ UNCHANGED <<rs_value, rs_slots, rs_order>>
    /\ UNCHANGED <<objVars, storeVars, tgVars, grVars, ldVars, cdVars, wkVars>>

\* ------------------------------------------------------- the string forms

\* A string is the sequence of its characters.
NoneStr == <<"None">>

Digits == <<"0", "1", "2", "3", "4", "5", "6", "7", "8", "9">>

\* f"{index}"
RECURSIVE NatStr(_)
NatStr(n) == IF n < 10 THEN <<Digits[n + 1]>> ELSE NatStr(n \div 10) \o <<Digits[(n % 10) + 1]>>

IntStr(n) == IF n < 0 THEN <<"-">> \o NatStr(0 - n) ELSE NatStr(n)

\* int(decoded): a ValueError unless an optional sign and digits.
IsNatStr(str) == str # <<>> /\ \A i \in DOMAIN str : \E d \in DOMAIN Digits : Digits[d] = str[i]

IsIntStr(str) == IF str # <<>> /\ str[1] = "-" THEN IsNatStr(Tail(str)) ELSE IsNatStr(str)

RECURSIVE StrNat(_)
StrNat(str) ==
    IF str = <<>> THEN 0
    ELSE 10 * StrNat(SubSeq(str, 1, Len(str) - 1))
         + (CHOOSE d \in DOMAIN Digits : Digits[d] = str[Len(str)]) - 1

StrInt(str) == IF str[1] = "-" THEN 0 - StrNat(Tail(str)) ELSE StrNat(str)

\* Where a character first is in a string; 0 where it is not.
FirstIndex(str, c) ==
    IF \E i \in DOMAIN str : str[i] = c
    THEN CHOOSE i \in DOMAIN str : str[i] = c /\ \A k \in 1..(i - 1) : str[k] # c
    ELSE 0

\* str.split(sep, 1)
SplitOnce(str, sep) ==
    IF FirstIndex(str, sep) = 0 THEN <<str>>
    ELSE <<SubSeq(str, 1, FirstIndex(str, sep) - 1),
           SubSeq(str, FirstIndex(str, sep) + 1, Len(str))>>

\* str.split(sep)
RECURSIVE Split(_, _)
Split(str, sep) ==
    IF FirstIndex(str, sep) = 0 THEN <<str>>
    ELSE <<SubSeq(str, 1, FirstIndex(str, sep) - 1)>>
         \o Split(SubSeq(str, FirstIndex(str, sep) + 1, Len(str)), sep)

\* sep.join(strs)
RECURSIVE Join(_, _)
Join(strs, sep) ==
    IF strs = <<>> THEN <<>>
    ELSE IF Len(strs) = 1 THEN strs[1]
    ELSE strs[1] \o <<sep>> \o Join(Tail(strs), sep)

\* sub in str
Contains(str, sub) ==
    \E i \in 1..(Len(str) - Len(sub) + 1) : SubSeq(str, i, i + Len(sub) - 1) = sub

\* urllib.parse.quote, safe="/": letters, digits, "_.-~" and "/" are kept,
\* any other character becomes "%" and the two hex digits of its code. The
\* table holds the reserved characters the strings of the model contain.
HexOf ==
    [c \in {"?", "&", "=", "%", " "} |->
        CASE c = "?" -> <<"3", "F">>
          [] c = "&" -> <<"2", "6">>
          [] c = "=" -> <<"3", "D">>
          [] c = "%" -> <<"2", "5">>
          [] c = " " -> <<"2", "0">>]

QuoteNothing(str) == str

RECURSIVE quote(_)
quote(str) ==
    IF str = <<>> THEN <<>>
    ELSE (IF str[1] \in DOMAIN HexOf THEN <<"%">> \o HexOf[str[1]] ELSE <<str[1]>>)
         \o quote(Tail(str))

\* urllib.parse.unquote: "%" and two hex digits become the character of that
\* code; a "%" that is followed by anything else is kept.
RECURSIVE unquote(_)
unquote(str) ==
    IF str = <<>> THEN <<>>
    ELSE IF /\ str[1] = "%"
            /\ Len(str) >= 3
            /\ \E c \in DOMAIN HexOf : HexOf[c] = <<str[2], str[3]>>
         THEN <<CHOOSE c \in DOMAIN HexOf : HexOf[c] = <<str[2], str[3]>>>>
              \o unquote(SubSeq(str, 4, Len(str)))
         ELSE <<str[1]>> \o unquote(Tail(str))

\* The option keys, in the order to_data_string writes them.
OptionKeys == <<"artifact", "id", "name", "path", "tag">>

OptionKeySet == { OptionKeys[i] : i \in DOMAIN OptionKeys }

KeyStr ==
    [k \in OptionKeySet |->
        CASE k = "artifact" -> <<"a", "r", "t", "i", "f", "a", "c", "t">>
          [] k = "id" -> <<"i", "d">>
          [] k = "name" -> <<"n", "a", "m", "e">>
          [] k = "path" -> <<"p", "a", "t", "h">>
          [] k = "tag" -> <<"t", "a", "g">>]

\* options = {}: options.get(key) is None for every key.
NoOptions == [k \in OptionKeySet |-> NoneStr]

\* Values of an option: a path, reserved characters, an escape written out,
\* the empty string.
OptionValues == { <<"a", "/", "b">>, <<"&", "=", "?">>, <<"%", "2", "6">>, <<>> }

OptionSets == [OptionKeySet -> OptionValues \cup {NoneStr}]

GraphIdStr == <<"g", "p", "h", "_", "1">>

ObjectIdStr == <<"f", "i", "l", "_", "1">>

KindStrs == { <<"f", "i", "l", "e">>, <<"d", "i", "r", "e", "c", "t", "o", "r", "y">> }

StrIndices == {0, 12}

\* A pointer: {"graph": graph or None, "index": index, "kind": kind}; a graph
\* handle is compared by its id.
StrPointer(graph, index, kind) ==
    [t |-> "pointer", graph |-> graph, index |-> index, kind |-> kind]

\* An object handle, compared by its id.
StrObject(oid) == [t |-> "object", id |-> oid]

NoItem == [t |-> "none"]

StrPointers ==
    { StrPointer(g, i, k) : g \in {NoneStr, GraphIdStr}, i \in StrIndices, k \in KindStrs }

Dependencies ==
    { [item |-> item, options |-> o] :
        item \in StrPointers \cup {StrObject(ObjectIdStr), NoItem}, o \in OptionSets }

Referents == { [item |-> StrObject(ObjectIdStr), options |-> o] : o \in OptionSets }

Parsed(v) == [status |-> "returned", value |-> v]

Failed(what) == [status |-> "raised", value |-> what]

\* Pointer.to_data_string
Pointer_to_data_string(obj) ==
    (IF obj.graph # NoneStr THEN <<"g", "r", "a", "p", "h">> \o <<"=">> \o obj.graph \o <<"&">> ELSE <<>>)
    \o <<"i", "n", "d", "e", "x">> \o <<"=">> \o IntStr(obj.index)
    \o <<"&">> \o <<"k", "i", "n", "d">> \o <<"=">> \o obj.kind

\* The loop of Pointer.from_data_string over the parameters.
RECURSIVE PointerParams(_, _)
PointerParams(params, acc) ==
    IF params = <<>> THEN acc
    ELSE LET parts == SplitOnce(params[1], "=")
         IN IF Len(parts) # 2 THEN [acc EXCEPT !.raised = "missing value"]
            ELSE IF parts[1] = <<"g", "r", "a", "p", "h">>
                 THEN PointerParams(Tail(params), [acc EXCEPT !.graph = unquote(parts[2])])
            ELSE IF parts[1] = <<"i", "n", "d", "e", "x">>
                 THEN IF IsIntStr(unquote(parts[2]))
                      THEN PointerParams(Tail(params),
                               [acc EXCEPT !.hasIndex = TRUE, !.index = StrInt(unquote(parts[2]))])
                      ELSE [acc EXCEPT !.raised = "invalid literal"]
            ELSE IF parts[1] = <<"k", "i", "n", "d">>
                 THEN PointerParams(Tail(params), [acc EXCEPT !.kind = unquote(parts[2])])
            ELSE PointerParams(Tail(params), acc)

\* Pointer.from_data_string
Pointer_from_data_string(data) ==
    LET acc == PointerParams(Split(data, "&"),
                   [raised |-> "", graph |-> NoneStr, hasIndex |-> FALSE, index |-> 0,
                    kind |-> NoneStr])
    IN IF acc.raised # "" THEN Failed(acc.raised)
       ELSE IF ~acc.hasIndex THEN Failed("missing index")
       ELSE IF acc.kind = NoneStr THEN Failed("missing kind")
       ELSE Parsed(StrPointer(acc.graph, acc.index, acc.kind))

\* Edge.to_data_string(obj, lambda i: i.id)
Edge_to_data_string(obj) ==
    IF obj.t = "pointer" THEN Pointer_to_data_string(obj) ELSE obj.id

\* Edge.from_data_string(data, Object_.with_id)
Edge_from_data_string(data) ==
    IF Contains(data, <<"i", "n", "d", "e", "x">> \o <<"=">>)
    THEN Pointer_from_data_string(data)
    ELSE Parsed(StrObject(data))

\* The parameters to_data_string writes for the options that are set.
OptionParams(options, quoted) ==
    LET set == SelectSeq(OptionKeys, LAMBDA k : options[k] # NoneStr)
    IN [i \in DOMAIN set |-> KeyStr[set[i]] \o <<"=">> \o quoted[set[i]]]

Quoted(options) == [k \in DOMAIN options |-> quote(options[k])]

WithParams(item_str, params) ==
    IF params # <<>> THEN item_str \o <<"?">> \o Join(params, "&") ELSE item_str

\* Dependency.to_data_string
Dependency_to_data_string(val) ==
    WithParams(IF val.item # NoItem THEN Edge_to_data_string(val.item) ELSE <<>>,
               OptionParams(val.options, Quoted(val.options)))

\* referent.to_data_string(value, lambda item: item.id)
Referent_to_data_string(val) ==
    WithParams(val.item.id, OptionParams(val.options, Quoted(val.options)))

\* The loop of from_data_string over the parameters; a key that is no option
\* is skipped for a dependency and raises for a referent.
RECURSIVE OptionsFromParams(_, _, _)
OptionsFromParams(params, options, strict) ==
    IF params = <<>> THEN Parsed(options)
    ELSE LET key_value == SplitOnce(params[1], "=")
         IN IF Len(key_value) # 2 THEN Failed("missing value")
            ELSE IF \E k \in OptionKeySet : KeyStr[k] = key_value[1]
                 THEN OptionsFromParams(Tail(params),
                          [options EXCEPT
                              ![CHOOSE k \in OptionKeySet : KeyStr[k] = key_value[1]] =
                                  unquote(key_value[2])],
                          strict)
            ELSE IF strict THEN Failed("invalid key")
            ELSE OptionsFromParams(Tail(params), options, strict)

\* Dependency.from_data_string
Dependency_from_data_string(data) ==
    LET parts == SplitOnce(data, "?")
        item == IF parts[1] # <<>> THEN Edge_from_data_string(parts[1]) ELSE Parsed(NoItem)
        options == IF Len(parts) > 1 /\ parts[2] # <<>>
                   THEN OptionsFromParams(Split(parts[2], "&"), NoOptions, FALSE)
                   ELSE Parsed(NoOptions)
    IN IF item.status = "raised" THEN item
       ELSE IF options.status = "raised" THEN options
       ELSE Parsed([item |-> item.value, options |-> options.value])

\* referent.from_data_string(data, Object_.with_id)
Referent_from_data_string(data) ==
    LET parts == SplitOnce(data, "?")
        options == IF Len(parts) > 1
                   THEN OptionsFromParams(Split(parts[2], "&"), NoOptions, TRUE)
                   ELSE Parsed(NoOptions)
    IN IF options.status = "raised" THEN options
       ELSE Parsed([item |-> StrObject(parts[1]), options |-> options.value])

\* What the string forms are taken of.
StringInputs ==
    { [form |-> "pointer", value |-> x] : x \in StrPointers }
    \cup { [form |-> "dependency", value |-> x] : x \in Dependencies }
    \cup { [form |-> "referent", value |-> x] : x \in Referents }

\* to_data_string(x)
ToDataString ==
    /\ cd_pc = "idle"
    /\ cd_pc' = "data"
    /\ cd_data' = CASE cd_in.form = "pointer" -> Pointer_to_data_string(cd_in.value)
                    [] cd_in.form = "dependency" -> Dependency_to_data_string(cd_in.value)
                    [] cd_in.form = "referent" -> Referent_to_data_string(cd_in.value)
    /\ UNCHANGED <<cd_in, cd_out>>
    /\ UNCHANGED <<objVars, storeVars, tgVars, grVars, ldVars, rsVars, wkVars>>

\* from_data_string of that string
FromDataString ==
    /\ cd_pc = "data"
    /\ cd_pc' = "back"
    /\ cd_out' = CASE cd_in.form = "pointer" -> Pointer_from_data_string(cd_data)
                   [] cd_in.form = "dependency" -> Dependency_from_data_string(cd_data)
                   [] cd_in.form = "referent" -> Referent_from_data_string(cd_data)
    /\ UNCHANGED <<cd_in, cd_data>>
    /\ UNCHANGED <<objVars, storeVars, tgVars, grVars, ldVars, rsVars, wkVars>>

\* ----------------------------------------------------- to_data / from_data

\* bytes of a leaf blob.
MaxBlobBytes == 1

\* Python values in a body or in its data: a key a dict does not have, None,
\* strings, booleans, integers, bytes and their base64, handles (compared by
\* id), dicts (key and value, in insertion order) and lists.
PyAbsent == [t |-> "absent"]

PyNone == [t |-> "None"]

PyStr(str) == [t |-> "str", s |-> str]

PyBool(b) == [t |-> "bool", b |-> b]

PyInt(n) == [t |-> "int", n |-> n]

PyBytes(n) == [t |-> "bytes", bytes |-> n]

PyBase64(n) == [t |-> "base64", of |-> n]

PyHandle(i) == [t |-> "handle", id |-> i]

PyDict(items) == [t |-> "dict", items |-> items]

PyList(items) == [t |-> "list", items |-> items]

Item(k, v) == [key |-> k, value |-> v]

\* {"graph": graph, "index": index, "kind": kind}
PyPointer(graph, index, kind) ==
    [t |-> "pointer", graph |-> graph, index |-> PyInt(index), kind |-> PyStr(kind)]

\* dict.get(key, default); d[key] is PyAbsent for a key d does not have.
Get(v, default) == IF v.t = "absent" THEN default ELSE v

\* d.get(key), None for a key d does not have.
GetOrNone(v) == Get(v, PyNone)

\* if x: for None, a bool, a string, a dict or a list.
Truthy(v) ==
    CASE v.t \in {"None", "absent"} -> FALSE
      [] v.t = "bool" -> v.b
      [] v.t = "str" -> v.s # ""
      [] v.t \in {"dict", "list"} -> v.items # <<>>
      [] OTHER -> TRUE

\* x.id if hasattr(x, "id") else x
IdOrSame(v) == IF v.t = "handle" THEN PyStr(v.id) ELSE v

\* with_id(x) if isinstance(x, str) else x
WithIdOrSame(v) == IF v.t = "str" THEN PyHandle(v.s) ELSE v

MapItems(items, values) == [i \in DOMAIN items |-> Item(items[i].key, values[i])]

\* Blob.Object.to_data
Blob_to_data(obj) ==
    IF obj.bytes.t # "absent"
    THEN [bytes |-> PyBase64(obj.bytes.bytes), children |-> PyAbsent]
    ELSE [bytes |-> PyAbsent,
          children |-> PyList([i \in DOMAIN Get(obj.children, PyList(<<>>)).items |->
                                  [blob |-> PyStr(obj.children.items[i].blob.id),
                                   length |-> obj.children.items[i].length]])]

\* Blob.Object.from_data
Blob_from_data(data) ==
    IF data.bytes.t # "absent"
    THEN [bytes |-> PyBytes(data.bytes.of), children |-> PyAbsent]
    ELSE [bytes |-> PyAbsent,
          children |-> PyList([i \in DOMAIN Get(data.children, PyList(<<>>)).items |->
                                  [blob |-> PyHandle(data.children.items[i].blob.s),
                                   length |-> data.children.items[i].length]])]

\* Directory.Object.to_data
Directory_to_data(obj) ==
    LET entries == Get(obj.entries, PyDict(<<>>))
    IN [entries |-> IF Truthy(entries)
                    THEN PyDict(MapItems(entries.items,
                             [i \in DOMAIN entries.items |-> IdOrSame(entries.items[i].value)]))
                    ELSE PyAbsent]

\* Directory.Object.from_data
Directory_from_data(data) ==
    LET entries_data == Get(data.entries, PyDict(<<>>))
    IN [entries |-> PyDict(MapItems(entries_data.items,
                        [i \in DOMAIN entries_data.items |->
                            WithIdOrSame(entries_data.items[i].value)])),
        graph |-> PyAbsent, index |-> PyAbsent, kind |-> PyAbsent]

\* A dependency of a file object: {"item": item, "options": options}.
PyDependency(item, options) == [t |-> "dependency", item |-> item, options |-> options]

File_dependency_to_data(dependency) ==
    IF dependency.t = "None" THEN PyNone
    ELSE PyDependency(IdOrSame(GetOrNone(dependency.item)),
                      Get(dependency.options, PyDict(<<>>)))

File_dependency_from_data(dependency_data) ==
    IF dependency_data.t = "None" THEN PyNone
    ELSE PyDependency(WithIdOrSame(GetOrNone(dependency_data.item)),
                      Get(dependency_data.options, PyDict(<<>>)))

\* File.Object.to_data
File_to_data(obj) ==
    LET contents == GetOrNone(obj.contents)
        dependencies == Get(obj.dependencies, PyDict(<<>>))
        executable == Get(obj.executable, PyBool(FALSE))
    IN [contents |-> IF contents.t # "None" THEN IdOrSame(contents) ELSE PyAbsent,
        dependencies |->
            IF Truthy(dependencies)
            THEN PyDict(MapItems(dependencies.items,
                     [i \in DOMAIN dependencies.items |->
                         File_dependency_to_data(dependencies.items[i].value)]))
            ELSE PyAbsent,
        executable |-> IF Truthy(executable) THEN executable ELSE PyAbsent]

\* File.Object.from_data
File_from_data(data) ==
    LET contents == GetOrNone(data.contents)
        dependencies_data == Get(data.dependencies, PyDict(<<>>))
    IN [contents |-> IF contents.t # "None" THEN PyHandle(contents.s) ELSE PyAbsent,
        dependencies |->
            PyDict(MapItems(dependencies_data.items,
                [i \in DOMAIN dependencies_data.items |->
                    File_dependency_from_data(dependencies_data.items[i].value)])),
        executable |-> Get(data.executable, PyBool(FALSE)),
        graph |-> PyAbsent, index |-> PyAbsent, kind |-> PyAbsent]

\* Symlink.Object.to_data
Symlink_to_data(obj) ==
    [artifact |-> IF GetOrNone(obj.artifact).t # "None" THEN IdOrSame(obj.artifact) ELSE PyAbsent,
     path |-> IF GetOrNone(obj.path).t # "None" THEN obj.path ELSE PyAbsent]

\* Symlink.Object.from_data
Symlink_from_data(data) ==
    [artifact |-> IF GetOrNone(data.artifact).t # "None"
                  THEN WithIdOrSame(data.artifact) ELSE PyNone,
     path |-> GetOrNone(data.path),
     graph |-> PyAbsent, index |-> PyAbsent, kind |-> PyAbsent]

\* Pointer.to_data
Pointer_to_data(obj) ==
    [t |-> "pointer",
     graph |-> IF GetOrNone(obj.graph).t # "None" THEN PyStr(obj.graph.id) ELSE PyAbsent,
     index |-> obj.index, kind |-> obj.kind]

\* Pointer.from_data, of a dict
Pointer_from_data(data) ==
    [t |-> "pointer",
     graph |-> IF Truthy(GetOrNone(data.graph)) THEN PyHandle(data.graph.s) ELSE PyNone,
     index |-> data.index, kind |-> data.kind]

\* Edge.to_data(obj, lambda a: a.id)
Edge_to_data(obj) == IF obj.t = "pointer" THEN Pointer_to_data(obj) ELSE PyStr(obj.id)

\* Edge.from_data(data, artifact_with_id): an id is no pointer string, so
\* Pointer.from_data raises for it and the id is given to artifact_with_id.
Edge_from_data(data) ==
    IF data.t = "pointer" THEN Pointer_from_data(data) ELSE PyHandle(data.s)

\* Graph.Directory.to_data
DirectoryNode_to_data(node) ==
    LET entries == Get(node.entries, PyDict(<<>>))
    IN [kind |-> node.kind,
        entries |-> IF Truthy(entries)
                    THEN PyDict(MapItems(entries.items,
                             [i \in DOMAIN entries.items |-> Edge_to_data(entries.items[i].value)]))
                    ELSE PyAbsent]

\* Graph.Directory.from_data
DirectoryNode_from_data(data) ==
    LET entries == Get(data.entries, PyDict(<<>>))
    IN [kind |-> data.kind,
        entries |-> PyDict(MapItems(entries.items,
                        [i \in DOMAIN entries.items |-> Edge_from_data(entries.items[i].value)]))]

\* A dependency of a file node, and the string Dependency.to_data_string
\* makes of it.
NodeDependency(dependency) == [t |-> "dependency", of |-> dependency]

DependencyStr(str) == [t |-> "str", chars |-> str]

AssertFailed == [t |-> "AssertionError"]

FileNode_dependency_to_data(dependency) ==
    IF dependency.t = "None" THEN PyNone
    ELSE DependencyStr(Dependency_to_data_string(dependency.of))

FileNode_dependency_from_data(dep) ==
    IF dep.t = "None" THEN PyNone
    ELSE IF Dependency_from_data_string(dep.chars).status = "raised" THEN AssertFailed
    ELSE NodeDependency(Dependency_from_data_string(dep.chars).value)

\* Graph.File.to_data
FileNode_to_data(node) ==
    LET contents == GetOrNone(node.contents)
        dependencies == Get(node.dependencies, PyDict(<<>>))
        executable == Get(node.executable, PyBool(FALSE))
    IN [kind |-> node.kind,
        contents |-> IF contents.t # "None" THEN IdOrSame(contents) ELSE PyAbsent,
        dependencies |->
            IF Truthy(dependencies)
            THEN PyDict(MapItems(dependencies.items,
                     [i \in DOMAIN dependencies.items |->
                         FileNode_dependency_to_data(dependencies.items[i].value)]))
            ELSE PyAbsent,
        executable |-> IF Truthy(executable) THEN executable ELSE PyAbsent]

\* Graph.File.from_data
FileNode_from_data(data) ==
    LET dependencies == Get(data.dependencies, PyDict(<<>>))
    IN [kind |-> data.kind,
        contents |-> IF GetOrNone(data.contents).t = "None"
                     THEN AssertFailed ELSE PyHandle(data.contents.s),
        dependencies |->
            PyDict(MapItems(dependencies.items,
                [i \in DOMAIN dependencies.items |->
                    FileNode_dependency_from_data(dependencies.items[i].value)])),
        executable |-> Get(data.executable, PyBool(FALSE))]

\* Graph.Symlink.to_data
SymlinkNode_to_data(node) ==
    [kind |-> node.kind,
     artifact |-> IF GetOrNone(node.artifact).t # "None"
                  THEN Edge_to_data(node.artifact) ELSE PyAbsent,
     path |-> IF GetOrNone(node.path).t # "None" THEN node.path ELSE PyAbsent]

\* Graph.Symlink.from_data
SymlinkNode_from_data(data) ==
    [kind |-> data.kind,
     artifact |-> IF GetOrNone(data.artifact).t # "None"
                  THEN Edge_from_data(data.artifact) ELSE PyNone,
     path |-> GetOrNone(data.path)]

\* Graph.Node.to_data
Node_to_data(node) ==
    CASE node.kind = "directory" -> DirectoryNode_to_data(node)
      [] node.kind = "file" -> FileNode_to_data(node)
      [] node.kind = "symlink" -> SymlinkNode_to_data(node)

\* Graph.Node.from_data
Node_from_data(data) ==
    CASE data.kind = "directory" -> DirectoryNode_from_data(data)
      [] data.kind = "file" -> FileNode_from_data(data)
      [] data.kind = "symlink" -> SymlinkNode_from_data(data)

\* Graph.Object.to_data
GraphObject_to_data(obj) ==
    [nodes |-> PyList([i \in DOMAIN Get(obj.nodes, PyList(<<>>)).items |->
                          Node_to_data(obj.nodes.items[i])])]

\* Graph.Object.from_data
GraphObject_from_data(data) ==
    [nodes |-> PyList([i \in DOMAIN Get(data.nodes, PyList(<<>>)).items |->
                          Node_from_data(data.nodes.items[i])])]

\* tg.Value.to_data, of a string or an object
Value_to_data(v) == IF v.t = "handle" THEN [t |-> "object", value |-> v.id] ELSE v

\* tg.Value.from_data
Value_from_data(data) == IF data.t = "object" THEN PyHandle(data.value) ELSE data

\* Command.Executable.to_data
Executable_to_data(executable) ==
    IF executable.artifact.t # "absent"
    THEN [artifact |-> IdOrSame(executable.artifact), module |-> PyAbsent, export |-> PyAbsent,
          path |-> IF GetOrNone(executable.path).t # "None" THEN executable.path ELSE PyAbsent]
    ELSE IF executable.module.t # "absent"
    THEN [artifact |-> PyAbsent, module |-> executable.module, path |-> PyAbsent,
          export |-> IF GetOrNone(executable.export).t # "None"
                     THEN executable.export ELSE PyAbsent]
    ELSE [artifact |-> PyAbsent, module |-> PyAbsent, export |-> PyAbsent,
          path |-> executable.path]

\* Command.Executable.from_data
Executable_from_data(data) ==
    IF data.artifact.t # "absent"
    THEN [artifact |-> PyHandle(data.artifact.s), module |-> PyAbsent, export |-> PyAbsent,
          path |-> GetOrNone(data.path)]
    ELSE IF data.module.t # "absent"
    THEN [artifact |-> PyAbsent, module |-> data.module, path |-> PyAbsent,
          export |-> GetOrNone(data.export)]
    ELSE [artifact |-> PyAbsent, module |-> PyAbsent, export |-> PyAbsent, path |-> data.path]

\* Command.Mount.to_data
Mount_to_data(mount) == [source |-> IdOrSame(mount.source), target |-> mount.target]

\* Command.Mount.from_data
Mount_from_data(data) == [source |-> PyHandle(data.source.s), target |-> data.target]

\* Command.Object.to_data
Command_to_data(obj) ==
    LET args == Get(obj.args, PyList(<<>>))
        env == Get(obj.env, PyDict(<<>>))
        mounts == Get(obj.mounts, PyList(<<>>))
    IN [args |-> PyList([i \in DOMAIN args.items |-> Value_to_data(args.items[i])]),
        env |-> PyDict(MapItems(env.items,
                    [i \in DOMAIN env.items |-> Value_to_data(env.items[i].value)])),
        executable |-> IF obj.executable.t \notin {"absent", "None"}
                       THEN [t |-> "executable", of |-> Executable_to_data(obj.executable.of)]
                       ELSE PyAbsent,
        host |-> Get(obj.host, PyStr("")),
        cwd |-> IF GetOrNone(obj.cwd).t # "None" THEN obj.cwd ELSE PyAbsent,
        mounts |-> IF Truthy(mounts)
                   THEN PyList([i \in DOMAIN mounts.items |-> Mount_to_data(mounts.items[i])])
                   ELSE PyAbsent,
        stdin |-> IF GetOrNone(obj.stdin).t # "None" THEN IdOrSame(obj.stdin) ELSE PyAbsent,
        user |-> IF GetOrNone(obj.user).t # "None" THEN obj.user ELSE PyAbsent]

\* Command.Object.from_data
Command_from_data(data) ==
    LET args_data == Get(data.args, PyList(<<>>))
        env_data == Get(data.env, PyDict(<<>>))
        mounts_data == Get(data.mounts, PyList(<<>>))
    IN [args |-> PyList([i \in DOMAIN args_data.items |-> Value_from_data(args_data.items[i])]),
        cwd |-> GetOrNone(data.cwd),
        env |-> PyDict(MapItems(env_data.items,
                    [i \in DOMAIN env_data.items |-> Value_from_data(env_data.items[i].value)])),
        executable |-> IF data.executable.t \notin {"absent", "None"}
                       THEN [t |-> "executable", of |-> Executable_from_data(data.executable.of)]
                       ELSE PyAbsent,
        host |-> Get(data.host, PyStr("")),
        mounts |-> PyList([i \in DOMAIN mounts_data.items |->
                              Mount_from_data(mounts_data.items[i])]),
        stdin |-> IF GetOrNone(data.stdin).t # "None" THEN PyHandle(data.stdin.s) ELSE PyNone,
        user |-> GetOrNone(data.user)]

\* referent.to_data(source, item_to_data), the source a stored error
Source_to_data(source) ==
    [t |-> "referent", item |-> PyStr(source.item.id),
     options |-> [k \in DOMAIN source.options |->
                     IF source.options[k] # NoneStr THEN source.options[k] ELSE NoneStr]]

\* referent.from_data(data["source"], item_from_data)
Source_from_data(data) ==
    [t |-> "referent", item |-> PyHandle(data.item.s), options |-> data.options]

\* error_.object_to_data, of the code, the message, the source and the values
Error_to_data(obj) ==
    [code |-> IF GetOrNone(obj.code).t # "None" THEN obj.code ELSE PyAbsent,
     message |-> IF GetOrNone(obj.message).t # "None" THEN obj.message ELSE PyAbsent,
     source |-> IF GetOrNone(obj.source).t # "None" THEN Source_to_data(obj.source) ELSE PyAbsent,
     values |-> IF Truthy(GetOrNone(obj.values)) THEN obj.values ELSE PyAbsent]

\* error_.object_from_data
Error_from_data(data) ==
    [code |-> data.code,
     message |-> data.message,
     source |-> IF data.source.t # "absent" THEN Source_from_data(data.source) ELSE PyAbsent,
     values |-> IF data.values.t # "absent"
                THEN (IF Truthy(data.values) THEN data.values ELSE PyDict(<<>>))
                ELSE PyDict(<<>>)]

\* Object_.Object_.to_data
ObjectToData(obj) ==
    [kind |-> obj.kind,
     value |-> CASE obj.kind = "blob" -> Blob_to_data(obj.value)
                 [] obj.kind = "directory" -> Directory_to_data(obj.value)
                 [] obj.kind = "file" -> File_to_data(obj.value)
                 [] obj.kind = "symlink" -> Symlink_to_data(obj.value)
                 [] obj.kind = "graph" -> GraphObject_to_data(obj.value)
                 [] obj.kind = "command" -> Command_to_data(obj.value)
                 [] obj.kind = "error" -> Error_to_data(obj.value)]

\* Object_.Object_.from_data
ObjectFromData(data) ==
    [kind |-> data.kind,
     value |-> CASE data.kind = "blob" -> Blob_from_data(data.value)
                 [] data.kind = "directory" -> Directory_from_data(data.value)
                 [] data.kind = "file" -> File_from_data(data.value)
                 [] data.kind = "symlink" -> Symlink_from_data(data.value)
                 [] data.kind = "graph" -> GraphObject_from_data(data.value)
                 [] data.kind = "command" -> Command_from_data(data.value)
                 [] data.kind = "error" -> Error_from_data(data.value)]

\* The bodies the round trip is taken of: every edge is a handle that has an
\* id, or a pointer whose graph, if any, has one.
ArtifactHandles == { PyHandle("dir_1"), PyHandle("fil_1"), PyHandle("sym_1") }

BlobHandle == PyHandle("blb_1")

GraphHandle == PyHandle("gph_1")

PyPointers ==
    { PyPointer(g, i, k) : g \in {PyNone, GraphHandle}, i \in Indices, k \in {"directory", "file"} }

EdgeValues == ArtifactHandles \cup PyPointers

BlobBodies ==
    { [bytes |-> PyBytes(b), children |-> PyAbsent] : b \in 0..MaxBlobBytes }
    \cup { [bytes |-> PyAbsent,
            children |-> PyList([i \in 1..n |-> [blob |-> BlobHandle, length |-> PyInt(1)]])] :
             n \in 0..2 }

EntriesOver(values) ==
    UNION { { PyDict([i \in 1..n |-> Item(<<"a", "b">>[i], vs[i])]) : vs \in [1..n -> values] } :
              n \in 0..2 }

DirectoryBodies ==
    { [entries |-> es, graph |-> PyAbsent, index |-> PyAbsent, kind |-> PyAbsent] :
        es \in EntriesOver(EdgeValues) }

\* The body of what Graph.get returns: {"graph": self, "index": index, "kind": kind}.
ViewBodies(kind) ==
    { [k \in fields |-> CASE k = "graph" -> GraphHandle
                          [] k = "index" -> PyInt(i)
                          [] k = "kind" -> PyStr(kind)
                          [] OTHER -> PyAbsent] :
        i \in Indices,
        fields \in { CASE kind = "directory" -> {"entries", "graph", "index", "kind"}
                       [] kind = "file" -> {"contents", "dependencies", "executable",
                                            "graph", "index", "kind"}
                       [] kind = "symlink" -> {"artifact", "path", "graph", "index", "kind"} } }

FileDependencies ==
    { PyDict(<<>>), PyDict(<<Item("r", PyNone)>>) }
    \cup { PyDict(<<Item("r", PyDependency(item, options))>>) :
             item \in {PyNone, PyHandle("dir_1"), PyPointer(GraphHandle, 0, "file")},
             options \in { PyDict(<<>>), PyDict(<<Item("name", PyStr("n"))>>) } }

FileBodies ==
    { [contents |-> BlobHandle, dependencies |-> ds, executable |-> PyBool(x),
       graph |-> PyAbsent, index |-> PyAbsent, kind |-> PyAbsent] :
        ds \in FileDependencies, x \in BOOLEAN }

SymlinkBodies ==
    { [artifact |-> a, path |-> pth,
       graph |-> PyAbsent, index |-> PyAbsent, kind |-> PyAbsent] :
        a \in {PyNone} \cup EdgeValues, pth \in {PyNone, PyStr("p")} }

NodeDependencies ==
    { PyDict(<<>>), PyDict(<<Item("r", PyNone)>>) }
    \cup { PyDict(<<Item("r", NodeDependency([item |-> item, options |-> options]))>>) :
             item \in { NoItem, StrObject(ObjectIdStr), StrPointer(NoneStr, 1, <<"f", "i", "l", "e">>),
                        StrPointer(GraphIdStr, 0, <<"d", "i", "r", "e", "c", "t", "o", "r", "y">>) },
             options \in { NoOptions, [NoOptions EXCEPT !["path"] = <<"&", "=", "?">>] } }

GraphNodes ==
    { [kind |-> "directory", entries |-> es] : es \in EntriesOver(EdgeValues) }
    \cup { [kind |-> "file", contents |-> BlobHandle, dependencies |-> ds,
            executable |-> PyBool(x)] : ds \in NodeDependencies, x \in BOOLEAN }
    \cup { [kind |-> "symlink", artifact |-> a, path |-> pth] :
             a \in {PyNone} \cup EdgeValues, pth \in {PyNone, PyStr("p")} }

GraphBodies ==
    { [nodes |-> PyList(<<>>)] }
    \cup { [nodes |-> PyList(<<n>>)] : n \in GraphNodes }
    \cup { [nodes |-> PyList(<<[kind |-> "directory", entries |-> PyDict(<<>>)], n>>)] :
             n \in GraphNodes }

Executables ==
    { [artifact |-> PyAbsent, module |-> PyAbsent, export |-> PyAbsent, path |-> PyStr("sh")],
      [artifact |-> PyAbsent, module |-> PyStr("m"), export |-> PyNone, path |-> PyAbsent],
      [artifact |-> PyAbsent, module |-> PyStr("m"), export |-> PyStr("x"), path |-> PyAbsent] }
    \cup { [artifact |-> PyHandle("fil_1"), module |-> PyAbsent, export |-> PyAbsent,
            path |-> pth] : pth \in {PyNone, PyStr("p")} }

CommandBodies ==
    { [args |-> PyList(args), cwd |-> cwd, env |-> PyDict(env), executable |-> executable,
       host |-> PyStr(host), mounts |-> PyList(mounts), stdin |-> stdin, user |-> user] :
        args \in { <<>>, <<PyStr("x"), PyHandle("fil_1")>> },
        cwd \in { PyNone, PyStr("/") },
        env \in { <<>>, <<Item("K", PyStr("v"))>> },
        executable \in {PyAbsent} \cup { [t |-> "executable", of |-> e] : e \in Executables },
        host \in { "", "linux" },
        mounts \in { <<>>, <<[source |-> PyHandle("dir_1"), target |-> PyStr("/t")]>> },
        stdin \in { PyNone, BlobHandle },
        user \in { PyNone, PyStr("u") } }

ErrorBodies ==
    { [code |-> code, message |-> message, source |-> source, values |-> PyDict(vals)] :
        code \in { PyAbsent, PyStr("c") },
        message \in { PyAbsent, PyStr("m") },
        source \in { PyAbsent }
                   \cup { [t |-> "referent", item |-> PyHandle("err_1"), options |-> o] :
                            o \in { NoOptions, [NoOptions EXCEPT !["name"] = <<"&", "=", "?">>] } },
        vals \in { <<>>, <<Item("k", PyStr("v"))>> } }

Objects(kind, bodies) == { [kind |-> kind, value |-> b] : b \in bodies }

DataObjects ==
    Objects("blob", BlobBodies)
    \cup Objects("directory", DirectoryBodies \cup ViewBodies("directory"))
    \cup Objects("file", FileBodies \cup ViewBodies("file"))
    \cup Objects("symlink", SymlinkBodies \cup ViewBodies("symlink"))
    \cup Objects("graph", GraphBodies)
    \cup Objects("command", CommandBodies)
    \cup Objects("error", ErrorBodies)

\* data = Object_.Object_.to_data(obj)
ToData ==
    /\ cd_pc = "idle"
    /\ cd_pc' = "data"
    /\ cd_data' = ObjectToData(cd_in)
    /\ UNCHANGED <<cd_in, cd_out>>
    /\ UNCHANGED <<objVars, storeVars, tgVars, grVars, ldVars, rsVars, wkVars>>

\* Object_.Object_.from_data(data)
FromData ==
    /\ cd_pc = "data"
    /\ cd_pc' = "back"
    /\ cd_out' = ObjectFromData(cd_data)
    /\ UNCHANGED <<cd_in, cd_data>>
    /\ UNCHANGED <<objVars, storeVars, tgVars, grVars, ldVars, rsVars, wkVars>>

\* --------------------------------------------------------- idle values

CodecIdle ==
    /\ cd_pc = "idle"
    /\ cd_data = <<>>
    /\ cd_out = <<>>

ResolveIdle ==
    /\ rs_pc = "idle"
    /\ rs_slots = <<>>
    /\ rs_order = <<>>
    /\ rs_result = NoValue

WalkIdle ==
    /\ wk_pc = "idle"
    /\ wk_stack = <<>>
    /\ wk_out = <<>>

\* ------------------------------------------------------- the specification

StoreInit ==
    /\ created = 0
    /\ origin = [h \in Handles |-> ""]
    /\ id = [h \in Handles |-> NoId]
    /\ object = [h \in Handles |-> NoBody]
    /\ stored = [h \in Handles |-> FALSE]
    /\ pc = [t \in Tasks |-> "idle"]
    /\ value = [t \in Tasks |-> NoCall]
    /\ unstored = [t \in Tasks |-> NoCall]
    /\ batch = [t \in Tasks |-> NoCall]
    /\ nhash = [t \in Tasks |-> 0]
    /\ npost = [t \in Tasks |-> 0]
    /\ accepted = {}
    /\ ncalls = 0
    /\ last = ""

TryGetIdle ==
    /\ tg_pc = "idle"
    /\ tg_args = NoArgs
    /\ components = <<>>
    /\ artifact = NoArtifact
    /\ parents = <<>>
    /\ result = NoResult

GraphIdle ==
    /\ gr_count = 0
    /\ gr_args = <<>>
    /\ gr_graph = NoGraph
    /\ gr_view = NoView
    /\ gr_entries = NoEntriesResult

\* The object states and store(): no directory is walked, no graph made.
Init ==
    /\ StoreInit
    /\ TryGetIdle
    /\ fs = <<>>
    /\ GraphIdle
    /\ CodecIdle
    /\ cd_in = <<>>
    /\ ResolveIdle
    /\ rs_value = NoValue
    /\ WalkIdle
    /\ wk_tree = <<>>
    /\ gr_raws = <<>>
    /\ LoadIdle
    /\ ld_data = [i \in LdIds |-> ""]

Next ==
    \/ \E body \in Bodies : WithObject(body)
    \/ \E h \in Existing : id[h] # NoId /\ WithId(id[h])
    \/ \E h \in Handles : Id(h)
    \/ \E h \in Handles : Load(h)
    \/ \E h \in Handles : Unload(h)
    \/ \E h \in Handles : Children(h)
    \/ \E t \in Tasks : StoreBegin(t)
    \/ \E t \in Tasks : StoreResolveFail(t)
    \/ \E t \in Tasks : \E v \in ValuesOver(Existing) : StoreRun(t, v)
    \/ \E t \in Tasks : \E v \in ValuesOver(Existing) : StoreHashFail(t, v)
    \/ \E t \in Tasks : StorePostOk(t)
    \/ \E t \in Tasks : StorePostFail(t)
    \/ \E t \in Tasks : StoreCancel(t)

Spec == Init /\ [][Next]_vars

\* Directory.try_get over the structures.
InitTryGet ==
    /\ StoreInit
    /\ TryGetIdle
    /\ fs \in Structures
    /\ GraphIdle
    /\ CodecIdle
    /\ cd_in = <<>>
    /\ ResolveIdle
    /\ rs_value = NoValue
    /\ WalkIdle
    /\ wk_tree = <<>>
    /\ gr_raws = <<>>
    /\ LoadIdle
    /\ ld_data = [i \in LdIds |-> ""]

NextTryGet ==
    \/ \E dir \in {3, 5} : \E path \in PathsOver(ArgParts, MaxPathLen) : TryGetCall(dir, path)
    \/ \E dir \in {3, 5} : \E path \in PathsOver(ArgParts, MaxPathLen) : GetCall(dir, path)
    \/ TryGetStep
    \/ GetAssert
    \/ TryGetEnd

SpecTryGet == InitTryGet /\ [][NextTryGet]_vars

\* The event loop runs a started try_get on: each round of its loop, and
\* get's assertion after it, is taken once it can be.
SpecTryGetFair ==
    /\ InitTryGet
    /\ [][NextTryGet]_vars
    /\ WF_vars(TryGetStep)
    /\ WF_vars(GetAssert)

\* Graph.new over the raw specs, Graph.get and the views' entries.
InitGraph ==
    /\ StoreInit
    /\ TryGetIdle
    /\ fs = <<>>
    /\ GraphIdle
    /\ CodecIdle
    /\ cd_in = <<>>
    /\ ResolveIdle
    /\ rs_value = NoValue
    /\ WalkIdle
    /\ wk_tree = <<>>
    /\ gr_raws \in RawSpecs \X RawSpecs
    /\ LoadIdle
    /\ ld_data = [i \in LdIds |-> ""]

NextGraph ==
    \/ \E a1 \in Available : GraphNew(<<a1>>)
    \/ \E a1 \in Available : \E a2 \in Available : GraphNew(<<a1, a2>>)
    \/ \E index \in -1..(MaxIndex + 1) : GraphGet(index)
    \/ ViewEntries

SpecGraph == InitGraph /\ [][NextGraph]_vars

\* with_id handles of every class over ids the Handle has or lacks data for.
InitLoad ==
    /\ StoreInit
    /\ TryGetIdle
    /\ fs = <<>>
    /\ GraphIdle
    /\ CodecIdle
    /\ cd_in = <<>>
    /\ ResolveIdle
    /\ rs_value = NoValue
    /\ WalkIdle
    /\ wk_tree = <<>>
    /\ gr_raws = <<>>
    /\ LoadIdle
    /\ ld_data \in [LdIds -> LdDataKinds]

NextLoad ==
    \/ \E class \in LdClasses : \E i \in LdIds : LdWithId(class, i)
    \/ \E op \in {"object", "load"} : LdAccessor(op)
    \/ LdStateLoad
    \/ LdUnload

SpecLoad == InitLoad /\ [][NextLoad]_vars

\* Directory.walk over the trees.
InitWalk ==
    /\ StoreInit
    /\ TryGetIdle
    /\ fs = <<>>
    /\ GraphIdle
    /\ CodecIdle
    /\ cd_in = <<>>
    /\ ResolveIdle
    /\ rs_value = NoValue
    /\ WalkIdle
    /\ wk_tree \in WalkTrees
    /\ gr_raws = <<>>
    /\ LoadIdle
    /\ ld_data = [i \in LdIds |-> ""]

NextWalk ==
    \/ WalkCall
    \/ WalkNext
    \/ WalkEnd

SpecWalk == InitWalk /\ [][NextWalk]_vars

\* resolve over the values.
InitResolve ==
    /\ StoreInit
    /\ TryGetIdle
    /\ fs = <<>>
    /\ GraphIdle
    /\ CodecIdle
    /\ cd_in = <<>>
    /\ ResolveIdle
    /\ rs_value \in ResolveValues
    /\ WalkIdle
    /\ wk_tree = <<>>
    /\ gr_raws = <<>>
    /\ LoadIdle
    /\ ld_data = [i \in LdIds |-> ""]

NextResolve ==
    \/ ResolveCall
    \/ \E i \in 1..MaxResolveLen : ResolveStep(i)
    \/ ResolveReturn

SpecResolve == InitResolve /\ [][NextResolve]_vars

\* The string forms over the pointers, dependencies and referents.
InitString ==
    /\ StoreInit
    /\ TryGetIdle
    /\ fs = <<>>
    /\ GraphIdle
    /\ CodecIdle
    /\ cd_in \in StringInputs
    /\ ResolveIdle
    /\ rs_value = NoValue
    /\ WalkIdle
    /\ wk_tree = <<>>
    /\ gr_raws = <<>>
    /\ LoadIdle
    /\ ld_data = [i \in LdIds |-> ""]

NextString ==
    \/ ToDataString
    \/ FromDataString

SpecString == InitString /\ [][NextString]_vars

\* to_data and from_data over the bodies.
InitData ==
    /\ StoreInit
    /\ TryGetIdle
    /\ fs = <<>>
    /\ GraphIdle
    /\ CodecIdle
    /\ cd_in \in DataObjects
    /\ ResolveIdle
    /\ rs_value = NoValue
    /\ WalkIdle
    /\ wk_tree = <<>>
    /\ gr_raws = <<>>
    /\ LoadIdle
    /\ ld_data = [i \in LdIds |-> ""]

NextData ==
    \/ ToData
    \/ FromData

SpecData == InitData /\ [][NextData]_vars

\* ------------------------------------------------------------ properties

\* The handles embedded in a body: the edges of the dependency DAG.
EmbeddedHandles(body) ==
    { body.edges[i].ref.h : i \in DOMAIN body.edges } \ {0}

RECURSIVE ReachFrom(_)
ReachFrom(hs) ==
    LET next == hs \cup UNION { EmbeddedHandles(object[h]) : h \in hs }
    IN IF next = hs THEN hs ELSE ReachFrom(next)

Range(f) == { f[i] : i \in DOMAIN f }

BatchIds(t) == { batch[t][i].id : i \in DOMAIN batch[t] }

ReturnsOk(t) == pc[t] = "post" /\ pc'[t] = "idle" /\ last' = "returned"

Fails(t) == pc[t] # "idle" /\ pc'[t] = "idle" /\ last' \in {"raised", "cancelled"}

\* C1: in the batch a store() call hands to the Handle, an entry for a
\* submitted child comes before every entry of a submitted object that
\* embeds it.
C1_ChildrenFirst ==
    \A t \in Tasks : pc[t] = "post" =>
        \A j \in DOMAIN unstored[t] :
            \A c \in EmbeddedHandles(object[unstored[t][j]]) :
                (\E i \in DOMAIN unstored[t] : unstored[t][i] = c)
                => (\E i \in 1..(j - 1) :
                       unstored[t][i] = c /\ batch[t][i].id = id[c])

\* C2: when store(value) returns, every object that was unstored and is
\* reachable from value through the bodies' embedded edges was in the batch
\* and is stored.
C2_ReachableStored ==
    [][\A t \in Tasks : ReturnsOk(t) =>
          \A h \in ReachFrom(Range(value[t])) :
              ~stored[h] => (h \in Range(unstored[t]) /\ id[h] \in BatchIds(t) /\ stored'[h])]_vars

\* C3: a constructed object starts unstored; it is stored only once a batch
\* holding it was accepted by the Handle; a store() call that raises or is
\* cancelled changes no stored flag and drops no body.
C3_StoredOnlyAfterAccept ==
    /\ [](\A h \in Existing :
            (origin[h] = "object" /\ stored[h]) => id[h] \in AcceptedIds)
    /\ [][/\ \A h \in Handles :
                (origin[h] = "" /\ origin'[h] = "object") => ~stored'[h]
          /\ \A h \in Existing :
                (origin[h] = "object" /\ ~stored[h] /\ stored'[h]) =>
                    \E t \in Tasks : /\ ReturnsOk(t)
                                     /\ h \in Range(unstored[t])
                                     /\ id[h] \in BatchIds(t)
          /\ \A t \in Tasks : Fails(t) => (stored' = stored /\ object' = object)]_vars

C3_Witness ==
    /\ \E h \in Existing : origin[h] = "object" /\ stored[h] /\ id[h] \in AcceptedIds
    /\ \E h \in Existing : origin[h] = "object" /\ ~stored[h] /\ id[h] # NoId
    /\ last = "raised"

\* C4: no step takes the body of an unstored object away or changes it;
\* unload drops a body only of a stored object.
C4_UnstoredBodyKept ==
    [][\A h \in Existing : ~stored[h] => object'[h] = object[h]]_vars

C4_Witness ==
    /\ \E h \in Existing : origin[h] = "object" /\ stored[h] /\ object[h] = NoBody
    /\ \E h \in Existing : ~stored[h] /\ object[h] # NoBody

\* C5: every constructed handle holds an id or a body.
C5_IdOrBody == \A h \in Existing : id[h] # NoId \/ object[h] # NoBody

C5_Witness ==
    /\ \E h \in Existing : origin[h] = "object" /\ id[h] # NoId /\ object[h] = NoBody
    /\ \E h \in Existing : origin[h] = "object" /\ id[h] = NoId /\ object[h] # NoBody
    /\ last \in {"raised", "cancelled"}

C7_StoredIsNoop ==
    [][\A t \in Tasks :
          /\ (pc[t] = "resolve" /\ pc'[t] = "idle" /\ last' = "noop") =>
                UNCHANGED <<id, object, stored, accepted, batch, nhash, npost>>
          /\ (pc[t] = "resolve" /\ pc'[t] = "post") =>
                \E i \in DOMAIN value'[t] : ~stored[value'[t][i]]]_vars

C7_Witness ==
    /\ last = "noop"
    /\ \E h \in Existing : stored[h] /\ object[h] # NoBody /\ origin[h] = "object"

\* The id a reference has now.
CurrentId(r) == IF r.h = 0 THEN r.id ELSE id[r.h]

SameContent(h1, h2) ==
    /\ object[h1].kind = object[h2].kind
    /\ object[h1].scalar = object[h2].scalar
    /\ Len(object[h1].edges) = Len(object[h2].edges)
    /\ \A i \in DOMAIN object[h1].edges :
          /\ object[h1].edges[i].slot = object[h2].edges[i].slot
          /\ CurrentId(object[h1].edges[i].ref) # NoId
          /\ CurrentId(object[h1].edges[i].ref) = CurrentId(object[h2].edges[i].ref)

C9_OnePostAfterIds ==
    /\ [](\A t \in Tasks :
            /\ npost[t] <= 1
            /\ pc[t] \in {"idle", "resolve"} => (npost[t] = 0 /\ batch[t] = NoCall)
            /\ pc[t] = "post" =>
                  /\ npost[t] = 1
                  /\ Len(batch[t]) = Len(unstored[t])
                  /\ \A i \in DOMAIN unstored[t] :
                        /\ id[unstored[t][i]] # NoId
                        /\ batch[t][i].id = id[unstored[t][i]])
    /\ [][\A t \in Tasks :
            (pc[t] = "resolve" /\ Fails(t)) => accepted' = accepted]_vars

C9_Witness ==
    \E t \in Tasks : pc[t] = "post" /\ npost[t] = 1 /\ Len(batch[t]) >= 2

\* C10: in Directory.try_get, a looked-up Symlink entry with an artifact and no
\* path has that artifact substituted and resolution goes on with the
\* remaining components: with s = {artifact: directory 3, path: none} in the
\* root, try_get("s") yields directory 3 and try_get("s/b") yields the entry b
\* of directory 3 (the file, node 1).
C10_ArtifactSymlinkContinues ==
    (/\ tg_pc = "done"
     /\ tg_args.dir = 5
     /\ fs[4].artifact = 3
     /\ ~fs[4].path.present)
    => /\ tg_args.path = <<"s">>
          => result.status = "artifact" /\ result.artifact.node = 3
       /\ tg_args.path = <<"s", "b">>
          => result.status = "artifact" /\ result.artifact.node = 1

\* The entry try_get's loop looks up in this round, and the rounds that look
\* up a symlink.
Entry == Directory_entry(artifact, Head(components))

AtSymlinkEntry ==
    /\ tg_pc = "loop"
    /\ components # <<>>
    /\ Head(components) \in Names
    /\ IsDirectory(artifact)
    /\ IsSymlink(Entry)

Finished == tg_pc \in {"assert", "done"} /\ tg_args.op = "try_get"

\* C11: a looked-up Symlink with a path and no artifact is resolved relative
\* to the directory that holds it: the walk goes back to that directory and
\* goes on with the symlink's path components followed by the remaining
\* components. With s = {path: "a/b"} in the root, try_get("s") yields the
\* file a/b; with s = {path: "a"}, try_get("s/b") yields it too.
C11_PathSymlinkRelativeToParent ==
    /\ [][(/\ AtSymlinkEntry
           /\ fs[Entry.node].form = "none"
           /\ fs[Entry.node].path.present
           /\ Len(_path_components(fs[Entry.node].path.parts)) + Len(components) - 1
                 <= MaxComponents)
          => /\ tg_pc' = "loop"
             /\ components' = _path_components(fs[Entry.node].path.parts) \o Tail(components)
             /\ artifact' = artifact
             /\ parents' = parents]_vars
    /\ [](/\ Finished
          /\ tg_args.dir = 5
          /\ fs[4].form = "none"
          => /\ (fs[4].path = StrPath(<<"a", "b">>) /\ tg_args.path = <<"s">>)
                => result = Returned(Handle(1))
             /\ (fs[4].path = StrPath(<<"a">>) /\ tg_args.path = <<"s", "b">>)
                => result = Returned(Handle(1)))

C11_Witness ==
    /\ Finished
    /\ tg_args.dir = 5
    /\ tg_args.path = <<"s">>
    /\ fs[4].form = "none"
    /\ fs[4].path = StrPath(<<"a", "b">>)
    /\ result = Returned(Handle(1))

\* C12: a looked-up Symlink with an artifact and a path gives, as the result
\* of the whole call, the result of the artifact's own try_get(path), not a
\* lookup relative to the directory that holds the symlink. With
\* s = {artifact: directory 3, path: "b"} in the root, try_get("s") is the
\* file b of directory 3; with path "a" it is None, as directory 3 has no a.
C12_ArtifactAndPathDelegates ==
    (/\ Finished
     /\ tg_args.dir = 5
     /\ tg_args.path = <<"s">>
     /\ fs[4].artifact = 3)
    => /\ fs[4].path = StrPath(<<"b">>) => result.artifact.node = 1
       /\ fs[4].path = StrPath(<<"a">>) => result = Returned(NoArtifact)

\* C13: try_get raises "invalid symlink" exactly when it reaches a Symlink
\* whose artifact and path are both absent: the error implies such a symlink
\* was looked up, and looking one up gives the error.
C13_InvalidSymlinkOnlyIfBothAbsent ==
    [][AtSymlinkEntry =>
          ((tg_pc' = "done" /\ result'.status = "invalid symlink")
           <=> (fs[Entry.node].form = "none" /\ ~fs[Entry.node].path.present))]_vars

\* C14: ".." pops one level of the parents; ".." with no parents raises
\* "path is external"; no path makes try_get on directory 3 return the root
\* above it or the root's symlink.
C14_DotDotPopsOrExternal ==
    /\ [][(tg_pc = "loop" /\ components # <<>> /\ Head(components) = "..")
          => IF parents = <<>>
             THEN tg_pc' = "done" /\ result' = Raised("path is external")
             ELSE /\ tg_pc' = "loop"
                  /\ artifact' = parents[Len(parents)]
                  /\ parents' = SubSeq(parents, 1, Len(parents) - 1)
                  /\ components' = Tail(components)]_vars
    /\ []((tg_pc = "done" /\ tg_args.path \in {<<"..">>, <<"..", "a">>})
          => result = Raised("path is external"))
    /\ []((tg_pc \in {"assert", "done"} /\ tg_args.dir = 3)
          => result.artifact.node \notin {4, 5})

C14_Witness ==
    /\ tg_pc = "done"
    /\ tg_args.dir = 5
    /\ tg_args.path = <<"..", "a">>
    /\ result = Raised("path is external")

\* Looking the names of p up in turn from a; "symlink" if a symlink is met.
RECURSIVE Lookup(_, _)
Lookup(a, p) ==
    IF IsSymlink(a) THEN [status |-> "symlink", artifact |-> a]
    ELSE IF p = <<>> THEN Returned(a)
    ELSE IF ~IsDirectory(a) THEN Returned(NoArtifact)
    ELSE IF Directory_entry(a, Head(p)) = NoArtifact THEN Returned(NoArtifact)
    ELSE Lookup(Directory_entry(a, Head(p)), Tail(p))

PlainPath(p) == \A i \in DOMAIN p : p[i] \in Names

\* C15: for a path of normal components try_get returns the artifact reached
\* by looking each component up in turn, and None once a component is
\* absent; get raises its required-entry failure exactly when try_get
\* returned None, and returns try_get's artifact otherwise.
C15_LookupOrNone ==
    /\ []((/\ Finished
           /\ PlainPath(tg_args.path)
           /\ Lookup(Handle(tg_args.dir), tg_args.path).status # "symlink")
          => result = Lookup(Handle(tg_args.dir), tg_args.path))
    /\ [][tg_pc = "assert"
          => /\ tg_pc' = "done"
             /\ result.status = "None"
                  => result' = Raised("Failed to get the directory entry")
             /\ result.status # "None" => result' = result]_vars
    /\ []((tg_pc = "done" /\ tg_args.op = "get") => result.status # "None")

C15_Witness ==
    /\ tg_pc = "done"
    /\ tg_args.op = "get"
    /\ tg_args.dir = 5
    /\ tg_args.path = <<"a", "a">>
    /\ result = Raised("Failed to get the directory entry")

\* ------------------------------------------------------------ graph claims

\* The entries of node i of a graph, each graph-relative pointer resolved to
\* the view Graph.get gives for the node it points to.
NodeEntries(nodes, i) ==
    LET edge == At(nodes, i).edge
    IN IF edge.t = "none" THEN {}
       ELSE { [name |-> "x",
               artifact |-> IF edge.t = "pointer" /\ edge.graph = 0
                            THEN Graph_get(nodes, edge.index)
                            ELSE Aiter_artifact(edge)] }

\* C16: entries() of the directory view Graph.get(i) returns are the entries
\* of node i of the owning graph, every graph-relative pointer resolved to a
\* view of the node it points to.
C16_ViewEntriesAreNodeEntries ==
    gr_entries.status = "returned"
        => gr_entries.entries = NodeEntries(gr_graph.nodes, gr_view.index)

\* Where the nodes of argument k start in the merged list.
RECURSIVE Offset(_, _)
Offset(args, k) ==
    IF k = 1 THEN 0 ELSE Offset(args, k - 1) + Len(args[k - 1])

\* The node of the made graph that came from node j of argument k.
Merged(k, j) == gr_graph.nodes[Offset(gr_args, k) + j]

Relative(e) == e.t = "int" \/ (e.t = "pointer" /\ e.graph = 0)
Absolute(e) == e.t = "pointer" /\ e.graph # 0

\* C17: Graph.new(g1, g2) holds the nodes of g1 then those of g2, and every
\* graph-relative index of argument k is increased by the number of nodes
\* before it, g1's being unchanged.
C17_MergeRebasesEveryReference ==
    gr_graph.status = "graph" =>
        /\ Len(gr_graph.nodes) = Offset(gr_args, Len(gr_args) + 1)
        /\ \A k \in DOMAIN gr_args : \A j \in DOMAIN gr_args[k] :
              /\ Merged(k, j).kind = gr_args[k][j].kind
              /\ Relative(gr_args[k][j].edge) =>
                    Merged(k, j).edge.index
                        = gr_args[k][j].edge.index + Offset(gr_args, k)

\* C18: Graph.new leaves the graph and the index of every pointer that has a
\* graph as they are, and gives no pointer a graph nor takes one away.
C18_AbsolutePointersUntouched ==
    gr_graph.status = "graph" =>
        \A k \in DOMAIN gr_args : \A j \in DOMAIN gr_args[k] :
            /\ Absolute(gr_args[k][j].edge) =>
                  /\ Merged(k, j).edge.graph = gr_args[k][j].edge.graph
                  /\ Merged(k, j).edge.index = gr_args[k][j].edge.index
            /\ gr_args[k][j].edge.t \in {"int", "pointer"} =>
                  (Merged(k, j).edge.graph = 0 <=> gr_args[k][j].edge.graph = 0)

\* The nodes whose edge Graph.new gives a kind: an int or a kind-less pointer.
Inferred(nodes) ==
    { i \in DOMAIN nodes :
        \/ nodes[i].edge.t = "int"
        \/ nodes[i].edge.t = "pointer" /\ nodes[i].edge.kind = "" }

\* C19: the kind Graph.new infers is the kind of the node at the index in
\* the assembled list, and an index outside 0..len(nodes)-1, too large or
\* negative, makes the construction fail with an invalid-index error.
C19_KindInferredOrInvalidIndex ==
    gr_count > 0 =>
        LET nodes == Graph_arg(gr_args, 0)
        IN /\ (\E i \in Inferred(nodes) :
                    nodes[i].edge.index \notin 0..(Len(nodes) - 1))
                 => gr_graph.status = "invalid node index"
           /\ gr_graph.status = "graph" =>
                 \A i \in Inferred(nodes) :
                     /\ nodes[i].edge.index \in 0..(Len(nodes) - 1)
                     /\ gr_graph.nodes[i].edge.kind
                            = nodes[nodes[i].edge.index + 1].kind

\* ------------------------------------------------------------- load claims

AccessorOps == {"object", "load"}

\* C20: load() on an id-only handle fails with not-found when the Handle has
\* no data for the id and with the assertion's error when the data's kind is
\* not the handle's; an accessor never returns a body of another kind.
C20_LoadNotFoundOrKindChecked ==
    [][ /\ (ld_class # "" /\ ld_object = "" /\ ld_result'.op \in AccessorOps
            /\ ld_class' = ld_class /\ ld_id' = ld_id) =>
              /\ ld_data[ld_id] = "" =>
                    /\ ld_result'.status = "not found"
                    /\ ld_object' = ""
              /\ (ld_data[ld_id] # "" /\ ld_data[ld_id] # ld_class) =>
                    ld_result'.status = "AssertionError"
        /\ (ld_result'.op \in AccessorOps /\ ld_result'.status = "returned") =>
              ld_result'.kind = ld_class'
      ]_vars

C20_Witness ==
    /\ ld_class = "directory"
    /\ ld_id # NoId
    /\ ld_data[ld_id] = "file"
    /\ ld_result.op = "load"
    /\ ld_result.status = "AssertionError"


\* The graph-relative pointers of a made graph: the nodes whose edge is a
\* pointer without a graph.
RelativePointers(nodes) ==
    { i \in DOMAIN nodes : nodes[i].edge.t = "pointer" /\ nodes[i].edge.graph = 0 }

\* C30: in a graph Graph.new returns, every pointer without a graph has an
\* index 0 <= index < number of nodes and the kind of the node at that index.
C30_RelativePointersInRange ==
    gr_graph.status = "graph" =>
        \A i \in RelativePointers(gr_graph.nodes) :
            /\ gr_graph.nodes[i].edge.index \in 0..(Len(gr_graph.nodes) - 1)
            /\ gr_graph.nodes[i].edge.kind
                   = gr_graph.nodes[gr_graph.nodes[i].edge.index + 1].kind

\* ------------------------------------------------------ termination claim

\* try_get is in its while loop.
InLoop == tg_pc = "loop"
\* try_get has returned or raised.
LeftLoop == tg_pc \in {"assert", "done", "idle"}

\* C29: every try_get call leaves its loop: it returns an artifact or None, or
\* raises, whatever the path-only symlinks of the structure refer to.
C29_TryGetTerminates == InLoop ~> LeftLoop

\* ----------------------------------------------------- store safety claims

\* C27: the batch of one store() call holds each unstored object at most
\* once, and is no longer than the number of distinct objects reachable from
\* the value.
C27_BatchHasNoDuplicates ==
    \A t \in Tasks : pc[t] = "post" =>
        /\ \A i \in DOMAIN unstored[t] : \A j \in DOMAIN unstored[t] :
              unstored[t][i] = unstored[t][j] => i = j
        /\ \A i \in DOMAIN batch[t] : \A j \in DOMAIN batch[t] :
              batch[t][i].id = batch[t][j].id => i = j
        /\ Len(batch[t]) <= Cardinality(ReachFrom(Range(value[t])))

\* The ids of the objects that are stored: those of a batch the Handle
\* accepted, and those of handles whose stored flag is set.
StoredIds(acc, ids, st) ==
    { e.id : e \in acc } \cup { ids[h] : h \in { x \in Existing : st[x] } }

\* The ids that appear inside the data of a batch.
BatchEdgeIds(b) ==
    UNION { { b[i].data.edges[k].id : k \in DOMAIN b[i].data.edges } : i \in DOMAIN b }

\* C26: when store(value) returns, every id inside the data it submitted is
\* the id of a stored object: one of an accepted batch or one stored before.
C26_NoDanglingIds ==
    [][\A t \in Tasks : ReturnsOk(t) =>
          BatchEdgeIds(batch[t]) \subseteq StoredIds(accepted', id', stored')]_vars

\* The objects two store() calls in flight share: those reachable from the
\* value of each through the bodies' embedded edges.
Shared(t1, t2) ==
    ReachFrom(Range(value[t1])) \cap ReachFrom(Range(value[t2]))

\* The id a call submitted for h.
SubmittedIds(t, h) ==
    { batch[t][i].id : i \in { k \in DOMAIN unstored[t] : unstored[t][k] = h } }

\* C28: of two store() calls in flight whose values share objects, the one
\* that returns first leaves every shared object stored or collected by the
\* other call, which stores it when it returns, under the one id both calls
\* computed for it; an object becomes stored only by a call whose own batch
\* was accepted.
C28_ConcurrentStoresAgree ==
    [][/\ \A t1 \in Tasks : \A t2 \in Tasks \ {t1} :
            (ReturnsOk(t1) /\ pc[t2] = "post") =>
                \A h \in Shared(t1, t2) :
                    /\ stored'[h] \/ h \in Range(unstored[t2])
                    /\ id'[h] = id[h]
                    /\ SubmittedIds(t1, h) \cup SubmittedIds(t2, h) \subseteq {id[h]}
       /\ \A h \in Existing :
            (~stored[h] /\ stored'[h]) =>
                \E t \in Tasks : ReturnsOk(t) /\ h \in Range(unstored[t])]_vars

\* ----------------------------------------------------------- codec claims

\* C21: children(body) is the list of the objects embedded as immediate
\* edges of the body, all of them and nothing else.
C21_ChildrenAreEmbeddedEdges ==
    \A h \in Existing :
        object[h] # NoBody =>
            Object_children(id, object, object[h]) = Refs(object[h].edges)

\* ------------------------------------------------------------- walk claim

\* The paths of the entries at every depth below a directory.
RECURSIVE WalkAllPaths(_)
WalkAllPaths(node) ==
    LET es == wk_tree[node].entries
    IN UNION { {<<es[i].name>>}
               \cup { <<es[i].name>> \o q : q \in WalkAllPaths(es[i].node) }
               : i \in DOMAIN es }

\* The artifact a path leads to from a directory.
RECURSIVE WalkNodeAt(_, _)
WalkNodeAt(node, path) ==
    IF path = <<>> THEN node
    ELSE LET es == wk_tree[node].entries
             i == CHOOSE k \in DOMAIN es : es[k].name = Head(path)
         IN WalkNodeAt(es[i].node, Tail(path))

\* The position of the entry called name in the directory a path leads to.
EntryPosition(path, name) ==
    LET es == wk_tree[WalkNodeAt(1, path)].entries
    IN CHOOSE k \in DOMAIN es : es[k].name = name

IsPrefix(p, q) == Len(p) <= Len(q) /\ SubSeq(q, 1, Len(p)) = p

Parent(p) == SubSeq(p, 1, Len(p) - 1)

\* C25: walk yields one (path, artifact) pair for every entry at every depth,
\* a directory's pair before those of its descendants, all of them before
\* its next sibling's, the path being the entry names joined by "/"; what
\* has been yielded so far is never taken back.
C25_WalkDepthFirstPreOrder ==
    /\ wk_pc \in {"walking", "done"} =>
          /\ \A i \in DOMAIN wk_out :
                /\ wk_out[i].path \in WalkAllPaths(1)
                /\ wk_out[i].artifact = WalkNodeAt(1, wk_out[i].path)
          /\ \A i \in DOMAIN wk_out : \A k \in DOMAIN wk_out :
                /\ wk_out[i].path = wk_out[k].path => i = k
                /\ (wk_out[i].path # wk_out[k].path
                    /\ IsPrefix(wk_out[i].path, wk_out[k].path)) =>
                      /\ i < k
                      /\ \A m \in i..k : IsPrefix(wk_out[i].path, wk_out[m].path)
                /\ (Parent(wk_out[i].path) = Parent(wk_out[k].path)
                    /\ EntryPosition(Parent(wk_out[i].path), wk_out[i].path[Len(wk_out[i].path)])
                         < EntryPosition(Parent(wk_out[k].path), wk_out[k].path[Len(wk_out[k].path)])) =>
                      i < k
    /\ wk_pc = "done" =>
          /\ { wk_out[i].path : i \in DOMAIN wk_out } = WalkAllPaths(1)
          /\ Len(wk_out) = Cardinality(WalkAllPaths(1))

\* ---------------------------------------------------------- resolve claim

\* What a value is once nothing is pending in it.
RECURSIVE Resolved(_)
Resolved(val) == IF IsCoroutine(val) THEN Resolved(val.result) ELSE val

NoPending(val) ==
    /\ ~IsCoroutine(val)
    /\ val.t \in ContainerTypes => \A i \in DOMAIN val.items : ~IsCoroutine(val.items[i])

\* C24: resolve of a list, dict or tuple returns a container of the same
\* type, length and keys that holds at each position the resolved value of
\* the element given at that position, in whatever order the siblings
\* completed; a value with nothing pending in it is returned unchanged.
C24_ResolvePositional ==
    rs_pc = "done" =>
        /\ rs_value.t \in ContainerTypes =>
              /\ rs_result.t = rs_value.t
              /\ rs_result.keys = rs_value.keys
              /\ Len(rs_result.items) = Len(rs_value.items)
              /\ \A i \in DOMAIN rs_value.items :
                    rs_result.items[i] = Resolved(rs_value.items[i])
        /\ NoPending(rs_value) => rs_result = rs_value

\* A dict of three whose last element completed first and whose first element
\* was a coroutine of a coroutine.
C24_Witness ==
    /\ rs_pc = "done"
    /\ rs_value.t = "dict"
    /\ Len(rs_value.items) = MaxResolveLen
    /\ rs_order[1] = MaxResolveLen
    /\ rs_value.items[1] = Coroutine(MaxAwaits, Str("y"))
    /\ rs_value.items[MaxResolveLen] = Coroutine(1, TermList)
    /\ rs_result.items[1] # rs_result.items[MaxResolveLen]

\* ----------------------------------------------------- string round trip

\* C23: from_data_string(to_data_string(x)) is x for every pointer (graph
\* set or unset), every dependency (item a pointer, an object or absent) and
\* every referent, whichever of the options artifact, id, name, path and tag
\* are set and whatever characters their values hold.
C23_StringRoundTrip ==
    cd_pc = "back" => cd_out = Parsed(cd_in.value)

\* A dependency on a pointer with a graph, all five options set, among them
\* reserved characters and an escape written out.
C23_Witness ==
    /\ cd_pc = "back"
    /\ cd_in.form = "dependency"
    /\ cd_in.value.item.t = "pointer"
    /\ cd_in.value.item.graph # NoneStr
    /\ cd_in.value.item.index > 9
    /\ \A k \in OptionKeySet : cd_in.value.options[k] # NoneStr
    /\ cd_in.value.options["name"] = <<"&", "=", "?">>
    /\ cd_in.value.options["path"] = <<"a", "/", "b">>
    /\ cd_in.value.options["tag"] = <<"%", "2", "6">>
    /\ cd_in.value.options["id"] = <<>>
    /\ Contains(cd_data, <<"%", "2", "5", "2", "6">>)

\* ------------------------------------------------------- data round trip

\* C22: from_data(to_data(b)) is b for a body b of any kind whose edges are
\* handles that have an id, handles being compared by id and pointers by
\* graph id, index and kind.
C22_DataRoundTrip ==
    cd_pc = "back" => cd_out = cd_in

====
